---------------------------- MODULE Spec2Model ----------------------------
(***************************************************************************)
(* Readafull infrastructure: the environment configuration resolver, the   *)
(* CDK entry point that creates the Auth, Storage, Api and Monitoring      *)
(* stacks, the deployment engine applying and removing those stacks, the   *)
(* Monitoring stack's alarms, and the destroy script.                      *)
(***************************************************************************)
EXTENDS Integers, Sequences, FiniteSets, TLC

VARIABLES
    context,        \* the CDK context value 'environment': <<>> (absent) or <<s>>
    pc,             \* position of the entry point bin/readafull.ts
    config,         \* the value getEnvironmentConfig returned
    stacks,         \* the stacks created so far, by the entry point's variable name
    dependencies,   \* the declared dependencies, pairs <<stack id, stack id>>
    deployed,       \* ids of the stacks the engine has applied and not removed
    deleted,        \* ids of the stacks the engine has removed
    cloud,          \* physical names of the resources that exist
    objects,        \* number of objects in the audio bucket
    ARG1,           \* the script's first argument: <<>> (absent) or <<s>>
    ENVIRONMENT,    \* the script's variable ENVIRONMENT
    typed,          \* what the operator types at the prompt: a line or EOF
    CONFIRM,        \* the script's variable CONFIRM
    shpc,           \* position of the script
    exitStatus,     \* exit status of the script, -1 while it runs
    commands,       \* the commands the script has run, in order
    output,         \* the lines the script has printed, in order
    lambdaFunctions,\* the compute units handed to the Monitoring stack
    monitoring,     \* the Monitoring stack built from lambdaFunctions
    observed,       \* index of the alarm whose evaluation is followed, 0 if none
    windows,        \* the last evaluationPeriods data points of the observed alarm
    alarmState,     \* state of the observed alarm
    bucketLifecycle,\* the audio bucket's lifecycle configuration as the store took it
    audioObject,    \* one object of the audio bucket: its state, age and storage class
    awsConfigured,  \* whether `aws sts get-caller-identity` succeeds on the host
    awsRegion,      \* the host's `aws configure get region`: <<>> (unset) or <<r>>
    nodeModules,    \* whether the directory node_modules exists
    ACCOUNT_ID,     \* the deploy script's variable ACCOUNT_ID
    REGION,         \* the deploy script's variable REGION
    user            \* one user record of the user pool

appVars == <<context, pc, config, stacks, dependencies>>
engineVars == <<deployed, deleted, cloud, objects>>
scriptVars == <<ARG1, ENVIRONMENT, typed, CONFIRM, shpc, exitStatus, commands, output>>
monitoringVars == <<lambdaFunctions, monitoring, observed, windows, alarmState>>
lifecycleVars == <<bucketLifecycle, audioObject>>
deployVars == <<awsConfigured, awsRegion, nodeModules, ACCOUNT_ID, REGION>>
directoryVars == <<user>>
vars ==
    <<appVars, engineVars, scriptVars, monitoringVars, lifecycleVars, deployVars,
      directoryVars>>

-----------------------------------------------------------------------------
(* Bounds of the model *)

\* Selectors given as the 'environment' context value.
Selectors ==
    {"development", "staging", "production", "", "qa", "Production",
     "constructor", "__proto__"}

\* Largest number of objects uploaded to the audio bucket.
MaxObjects == 1

-----------------------------------------------------------------------------
(* config/environment.ts *)

configs ==
    [development |->
        [region |-> "us-east-1",
         environment |-> "development",
         appName |-> "readafull",
         stackPrefix |-> "Readafull-Dev",
         cognito |->
            [userPoolName |-> "readafull-users-dev",
             allowedCallbackURLs |-> <<"http://localhost:3000/auth/callback">>,
             allowedLogoutURLs |-> <<"http://localhost:3000/">>],
         dynamodb |->
            [tableName |-> "readafull-main-table-dev",
             billingMode |-> "PAY_PER_REQUEST"],
         s3 |->
            [audioBucketName |-> "readafull-audio-storage-dev",
             lifecycleDays |-> 30],
         api |-> [throttleRateLimit |-> 100, throttleBurstLimit |-> 200],
         lambda |-> [memorySize |-> 512, timeout |-> 30, runtime |-> "nodejs18.x"],
         monitoring |-> [enableXRay |-> TRUE, logRetentionDays |-> 7]],
     staging |->
        [region |-> "us-east-1",
         environment |-> "staging",
         appName |-> "readafull",
         stackPrefix |-> "Readafull-Staging",
         cognito |->
            [userPoolName |-> "readafull-users-staging",
             allowedCallbackURLs |-> <<"https://staging.readafull.com/auth/callback">>,
             allowedLogoutURLs |-> <<"https://staging.readafull.com/">>],
         dynamodb |->
            [tableName |-> "readafull-main-table-staging",
             billingMode |-> "PAY_PER_REQUEST"],
         s3 |->
            [audioBucketName |-> "readafull-audio-storage-staging",
             lifecycleDays |-> 60],
         api |-> [throttleRateLimit |-> 500, throttleBurstLimit |-> 1000],
         lambda |-> [memorySize |-> 1024, timeout |-> 60, runtime |-> "nodejs18.x"],
         monitoring |-> [enableXRay |-> TRUE, logRetentionDays |-> 14]],
     production |->
        [region |-> "us-east-1",
         environment |-> "production",
         appName |-> "readafull",
         stackPrefix |-> "Readafull-Prod",
         cognito |->
            [userPoolName |-> "readafull-users-prod",
             allowedCallbackURLs |-> <<"https://readafull.com/auth/callback">>,
             allowedLogoutURLs |-> <<"https://readafull.com/">>],
         dynamodb |->
            [tableName |-> "readafull-main-table-prod",
             billingMode |-> "PAY_PER_REQUEST"],
         s3 |->
            [audioBucketName |-> "readafull-audio-storage-prod",
             lifecycleDays |-> 90],
         api |-> [throttleRateLimit |-> 1000, throttleBurstLimit |-> 2000],
         lambda |-> [memorySize |-> 1024, timeout |-> 60, runtime |-> "nodejs18.x"],
         monitoring |->
            [enableXRay |-> TRUE,
             logRetentionDays |-> 30,
             alarmEmail |-> "alerts@readafull.com"]]]

\* The property names every object literal inherits from Object.prototype;
\* configs[env] finds them when env is not an own key of configs.
ObjectPrototypeKeys ==
    {"constructor", "__proto__", "toString", "valueOf", "hasOwnProperty",
     "isPrototypeOf", "propertyIsEnumerable", "toLocaleString"}

\* The inherited member configs[key] evaluates to: a function or an object,
\* truthy, with none of the fields of an EnvironmentConfig.
InheritedMember(key) == [inherited |-> key]

\* A version of the resolver that ignores the selector.
getEnvironmentConfigAlwaysDevelopment(environment) == configs.development

\* getEnvironmentConfig: env = environment || 'development';
\* return configs[env] || configs.development.
getEnvironmentConfig(environment) ==
    LET env == IF environment = "" THEN "development" ELSE environment
    IN  IF env \in DOMAIN configs THEN configs[env]
        ELSE IF env \in ObjectPrototypeKeys THEN InheritedMember(env)
        ELSE configs.development

\* Whether a resolved value is one of the EnvironmentConfig records.
IsEnvironmentConfig(c) == \E e \in DOMAIN configs : c = configs[e]

-----------------------------------------------------------------------------
(* lib/auth-stack.ts *)

RemovalPolicyAlwaysDestroy(cfg) == "DESTROY"

\* config.environment === 'production' ? RemovalPolicy.RETAIN : RemovalPolicy.DESTROY
RemovalPolicy(cfg) ==
    IF cfg.environment = "production" THEN "RETAIN" ELSE "DESTROY"

\* The provider attribute declared updatable.
ProviderAttributeMutable == [mutable |-> TRUE]

\* provider: new cognito.StringAttribute({ mutable: false })
ProviderAttribute == [mutable |-> FALSE]

\* The application client declared with a generated secret.
GenerateSecretTrue == TRUE

\* generateSecret: false
GenerateSecret == FALSE

AuthStack(id, cfg) ==
    [construct |-> "AuthStack",
     id |-> id,
     userPool |->
        [stack |-> id,
         logicalId |-> "UserPool",
         userPoolName |-> cfg.cognito.userPoolName,
         selfSignUpEnabled |-> TRUE,
         signInAliases |-> [email |-> TRUE, username |-> FALSE],
         autoVerify |-> [email |-> TRUE],
         standardAttributes |->
            [email |-> [required |-> TRUE, mutable |-> TRUE],
             givenName |-> [required |-> FALSE, mutable |-> TRUE],
             familyName |-> [required |-> FALSE, mutable |-> TRUE],
             profilePicture |-> [required |-> FALSE, mutable |-> TRUE]],
         customAttributes |->
            [provider |-> ProviderAttribute,
             difficulty_preference |-> [mutable |-> TRUE],
             preferred_language |-> [mutable |-> TRUE]],
         passwordPolicy |->
            [minLength |-> 8,
             requireLowercase |-> TRUE,
             requireUppercase |-> TRUE,
             requireDigits |-> TRUE,
             requireSymbols |-> FALSE],
         accountRecovery |-> "EMAIL_ONLY",
         removalPolicy |-> RemovalPolicy(cfg)],
     userPoolClient |->
        [stack |-> id,
         logicalId |-> "UserPoolClient",
         userPool |-> "UserPool",
         userPoolClientName |-> cfg.appName \o "-mobile-client",
         generateSecret |-> GenerateSecret,
         authFlows |-> [userPassword |-> TRUE, userSrp |-> TRUE, custom |-> TRUE],
         oAuth |->
            [flows |-> [authorizationCodeGrant |-> TRUE, implicitCodeGrant |-> FALSE],
             scopes |-> <<"email", "openid", "profile">>,
             callbackUrls |-> cfg.cognito.allowedCallbackURLs,
             logoutUrls |-> cfg.cognito.allowedLogoutURLs],
         supportedIdentityProviders |->
            <<"COGNITO", "Google", "Facebook", "SignInWithApple">>],
     \* no UserPoolIdentityProvider construct is created in the stack
     identityProviders |-> {},
     outputs |->
        {[name |-> "UserPoolId", exportName |-> cfg.stackPrefix \o "-UserPoolId"],
         [name |-> "UserPoolArn", exportName |-> cfg.stackPrefix \o "-UserPoolArn"],
         [name |-> "UserPoolClientId",
          exportName |-> cfg.stackPrefix \o "-UserPoolClientId"]}]

-----------------------------------------------------------------------------
(* lib/storage-stack.ts *)

\* Age in days at which the lifecycle rule moves an object to INTELLIGENT_TIERING.
TransitionAfterDays == 30

\* The bucket declared without encryption.
BucketEncryptionUnencrypted == "UNENCRYPTED"

\* encryption: s3.BucketEncryption.S3_MANAGED
BucketEncryption == "S3_MANAGED"

\* encryption: dynamodb.TableEncryption.AWS_MANAGED
TableEncryption == "AWS_MANAGED"

StorageStack(id, cfg) ==
    [construct |-> "StorageStack",
     id |-> id,
     mainTable |->
        [stack |-> id,
         logicalId |-> "MainTable",
         tableName |-> cfg.dynamodb.tableName,
         partitionKey |-> [name |-> "PK", type |-> "STRING"],
         sortKey |-> [name |-> "SK", type |-> "STRING"],
         billingMode |->
            IF cfg.dynamodb.billingMode = "PAY_PER_REQUEST"
            THEN "PAY_PER_REQUEST" ELSE "PROVISIONED",
         encryption |-> TableEncryption,
         pointInTimeRecovery |-> (cfg.environment = "production"),
         removalPolicy |-> RemovalPolicy(cfg),
         globalSecondaryIndexes |->
            <<[indexName |-> "GSI1",
               partitionKey |-> [name |-> "GSI1PK", type |-> "STRING"],
               sortKey |-> [name |-> "GSI1SK", type |-> "STRING"],
               projectionType |-> "ALL"]>>],
     audioBucket |->
        [stack |-> id,
         logicalId |-> "AudioBucket",
         bucketName |-> cfg.s3.audioBucketName,
         encryption |-> BucketEncryption,
         blockPublicAccess |-> "BLOCK_ALL",
         versioned |-> FALSE,
         lifecycleRules |->
            <<[id |-> "DeleteOldAudioFiles",
               enabled |-> TRUE,
               expirationDays |-> cfg.s3.lifecycleDays,
               transitions |->
                  <<[storageClass |-> "INTELLIGENT_TIERING",
                     transitionAfterDays |-> TransitionAfterDays]>>]>>,
         cors |->
            <<[allowedMethods |-> {"GET", "PUT", "POST", "DELETE"},
               allowedOrigins |-> {"*"},
               allowedHeaders |-> {"*"},
               maxAge |-> 3000]>>,
         removalPolicy |-> RemovalPolicy(cfg),
         autoDeleteObjects |-> (cfg.environment # "production")],
     outputs |->
        {[name |-> "MainTableName", exportName |-> cfg.stackPrefix \o "-MainTableName"],
         [name |-> "MainTableArn", exportName |-> cfg.stackPrefix \o "-MainTableArn"],
         [name |-> "AudioBucketName",
          exportName |-> cfg.stackPrefix \o "-AudioBucketName"],
         [name |-> "AudioBucketArn",
          exportName |-> cfg.stackPrefix \o "-AudioBucketArn"]}]

-----------------------------------------------------------------------------
(* lib/api-stack.ts: the five compute units the entry point reads from it *)

ApiFunctionNames ==
    <<"textGenerationFunction", "translationFunction", "ttsGenerationFunction",
      "audioProcessingFunction", "userProfileFunction">>

LambdaFunction(stackId, cfg, name) ==
    [stack |-> stackId,
     id |-> name,
     functionName |-> cfg.appName \o "-" \o name \o "-" \o cfg.environment,
     timeout |-> cfg.lambda.timeout]

ApiStack(id, cfg, apiProps) ==
    [construct |-> "ApiStack",
     id |-> id,
     props |-> apiProps,
     textGenerationFunction |-> LambdaFunction(id, cfg, ApiFunctionNames[1]),
     translationFunction |-> LambdaFunction(id, cfg, ApiFunctionNames[2]),
     ttsGenerationFunction |-> LambdaFunction(id, cfg, ApiFunctionNames[3]),
     audioProcessingFunction |-> LambdaFunction(id, cfg, ApiFunctionNames[4]),
     userProfileFunction |-> LambdaFunction(id, cfg, ApiFunctionNames[5])]

-----------------------------------------------------------------------------
(* lib/monitoring-stack.ts *)

\* aws-cdk-lib logs.RetentionDays, the enum the log retention is looked up in.
RetentionDays ==
    [ONE_DAY |-> 1, THREE_DAYS |-> 3, FIVE_DAYS |-> 5, ONE_WEEK |-> 7,
     TWO_WEEKS |-> 14, ONE_MONTH |-> 30, TWO_MONTHS |-> 60, THREE_MONTHS |-> 90,
     FOUR_MONTHS |-> 120, FIVE_MONTHS |-> 150, SIX_MONTHS |-> 180,
     ONE_YEAR |-> 365, THIRTEEN_MONTHS |-> 400, EIGHTEEN_MONTHS |-> 545,
     TWO_YEARS |-> 731, THREE_YEARS |-> 1096, FIVE_YEARS |-> 1827,
     SIX_YEARS |-> 2192, SEVEN_YEARS |-> 2557, EIGHT_YEARS |-> 2922,
     NINE_YEARS |-> 3288, TEN_YEARS |-> 3653, INFINITE |-> 9999]

\* logs.RetentionDays[`DAYS_${logRetentionDays}`] || logs.RetentionDays.ONE_WEEK
LogRetention(cfg) ==
    LET key == "DAYS_" \o ToString(cfg.monitoring.logRetentionDays)
    IN  IF key \in DOMAIN RetentionDays THEN RetentionDays[key]
        ELSE RetentionDays.ONE_WEEK

\* The topic created without the subscription step.
AlarmTopicWithoutSubscription(stackId, cfg) ==
    [stack |-> stackId,
     logicalId |-> "AlarmTopic",
     topicName |-> cfg.stackPrefix \o "-alarms",
     displayName |-> "Readafull " \o cfg.environment \o " Alarms",
     subscriptions |-> {}]

\* new sns.Topic(...); if (config.monitoring.alarmEmail) addSubscription(
\* new EmailSubscription(config.monitoring.alarmEmail)): an absent or empty
\* alarmEmail is falsy.
AlarmTopic(stackId, cfg) ==
    [stack |-> stackId,
     logicalId |-> "AlarmTopic",
     topicName |-> cfg.stackPrefix \o "-alarms",
     displayName |-> "Readafull " \o cfg.environment \o " Alarms",
     subscriptions |->
        IF "alarmEmail" \in DOMAIN cfg.monitoring /\ cfg.monitoring.alarmEmail # ""
        THEN {[protocol |-> "email", endpoint |-> cfg.monitoring.alarmEmail]}
        ELSE {}]

LogGroup(stackId, cfg, fn) ==
    [stack |-> stackId,
     id |-> fn.id \o "LogGroup",
     logGroupName |-> "/aws/lambda/" \o fn.functionName,
     retention |-> LogRetention(cfg),
     removalPolicy |-> "DESTROY"]

\* fn.metricErrors / metricThrottles / metricDuration / metricInvocations
LambdaMetric(fn, metricName, statistic) ==
    [namespace |-> "AWS/Lambda",
     metricName |-> metricName,
     functionName |-> fn.functionName,
     statistic |-> statistic,
     periodMinutes |-> 5]

TreatMissingDataBreaching == "breaching"

\* treatMissingData: cloudwatch.TreatMissingData.NOT_BREACHING, on every alarm
TreatMissingData == "notBreaching"

ErrorAlarm(stackId, cfg, topic, fn) ==
    [stack |-> stackId,
     id |-> fn.id \o "ErrorAlarm",
     alarmName |-> cfg.stackPrefix \o "-" \o fn.functionName \o "-errors",
     metric |-> LambdaMetric(fn, "Errors", "Sum"),
     threshold |-> 10,
     evaluationPeriods |-> 2,
     comparisonOperator |-> "GreaterThanThreshold",
     treatMissingData |-> TreatMissingData,
     alarmActions |-> {topic.topicName}]

ThrottleAlarmWithoutAction(stackId, cfg, topic, fn) ==
    [stack |-> stackId,
     id |-> fn.id \o "ThrottleAlarm",
     alarmName |-> cfg.stackPrefix \o "-" \o fn.functionName \o "-throttles",
     metric |-> LambdaMetric(fn, "Throttles", "Sum"),
     threshold |-> 5,
     evaluationPeriods |-> 2,
     comparisonOperator |-> "GreaterThanThreshold",
     treatMissingData |-> TreatMissingData,
     alarmActions |-> {}]

ThrottleAlarm(stackId, cfg, topic, fn) ==
    [stack |-> stackId,
     id |-> fn.id \o "ThrottleAlarm",
     alarmName |-> cfg.stackPrefix \o "-" \o fn.functionName \o "-throttles",
     metric |-> LambdaMetric(fn, "Throttles", "Sum"),
     threshold |-> 5,
     evaluationPeriods |-> 2,
     comparisonOperator |-> "GreaterThanThreshold",
     treatMissingData |-> TreatMissingData,
     alarmActions |-> {topic.topicName}]

\* The threshold taken as the whole timeout rather than 80% of it.
DurationThresholdWholeTimeout(cfg) == cfg.lambda.timeout * 1000

\* config.lambda.timeout * 1000 * 0.8; the product is a whole number of
\* milliseconds for every configured timeout.
DurationThreshold(cfg) == (cfg.lambda.timeout * 1000 * 8) \div 10

DurationAlarm(stackId, cfg, topic, fn) ==
    [stack |-> stackId,
     id |-> fn.id \o "DurationAlarm",
     alarmName |-> cfg.stackPrefix \o "-" \o fn.functionName \o "-duration",
     metric |-> LambdaMetric(fn, "Duration", "Average"),
     threshold |-> DurationThreshold(cfg),
     evaluationPeriods |-> 2,
     comparisonOperator |-> "GreaterThanThreshold",
     treatMissingData |-> TreatMissingData,
     alarmActions |-> {topic.topicName}]

\* The three alarms declared in one pass of lambdaFunctions.forEach.
LambdaAlarms(stackId, cfg, topic, fn) ==
    <<ErrorAlarm(stackId, cfg, topic, fn),
      ThrottleAlarm(stackId, cfg, topic, fn),
      DurationAlarm(stackId, cfg, topic, fn)>>

LambdaWidget(fn) ==
    [type |-> "GraphWidget",
     title |-> fn.functionName,
     left |-> <<LambdaMetric(fn, "Invocations", "Sum"),
                LambdaMetric(fn, "Errors", "Sum"),
                LambdaMetric(fn, "Throttles", "Sum")>>,
     right |-> <<LambdaMetric(fn, "Duration", "Average")>>,
     width |-> 12,
     height |-> 6]

ApiGatewayMetric(cfg, metricName, statistic) ==
    [namespace |-> "AWS/ApiGateway",
     metricName |-> metricName,
     apiName |-> cfg.appName \o "-api-" \o cfg.environment,
     statistic |-> statistic,
     periodMinutes |-> 5]

ApiMetricsWidget(cfg) ==
    [type |-> "GraphWidget",
     title |-> "API Gateway Metrics",
     left |-> <<ApiGatewayMetric(cfg, "Count", "Sum"),
                ApiGatewayMetric(cfg, "4XXError", "Sum"),
                ApiGatewayMetric(cfg, "5XXError", "Sum")>>,
     right |-> <<ApiGatewayMetric(cfg, "Latency", "Average")>>,
     width |-> 24,
     height |-> 6]

Min(a, b) == IF a < b THEN a ELSE b

\* The rows built from whole pairs only: the last widget of an odd number of
\* widgets is left out.
DashboardRowsWholePairs(cfg, widgets) ==
    [r \in 1..(Len(widgets) \div 2) |-> SubSeq(widgets, 2 * r - 1, 2 * r)]
    \o <<(<<ApiMetricsWidget(cfg)>>)>>

\* for (i = 0; i < lambdaWidgets.length; i += 2) addWidgets(...slice(i, i + 2)),
\* then addWidgets(apiMetricsWidget): each addWidgets call is one row.
DashboardRows(cfg, widgets) ==
    LET n == Len(widgets)
        nrows == (n + 1) \div 2
    IN  [r \in 1..nrows |-> SubSeq(widgets, 2 * r - 1, Min(2 * r, n))]
        \o <<(<<ApiMetricsWidget(cfg)>>)>>

MonitoringStack(id, cfg, fns) ==
    LET topic == AlarmTopic(id, cfg)
        n == Len(fns)
        lambdaWidgets == [i \in 1..n |-> LambdaWidget(fns[i])]
    IN  [construct |-> "MonitoringStack",
         id |-> id,
         props |-> [lambdaFunctions |-> fns],
         alarmTopic |-> topic,
         dashboard |->
            [stack |-> id,
             logicalId |-> "Dashboard",
             dashboardName |-> cfg.stackPrefix \o "-dashboard",
             rows |-> DashboardRows(cfg, lambdaWidgets)],
         logGroups |-> [i \in 1..n |-> LogGroup(id, cfg, fns[i])],
         alarms |->
            [k \in 1..(3 * n) |->
                LambdaAlarms(id, cfg, topic, fns[((k - 1) \div 3) + 1])[((k - 1) % 3) + 1]],
         outputs |->
            {[name |-> "AlarmTopicArn", exportName |-> cfg.stackPrefix \o "-AlarmTopicArn"],
             [name |-> "DashboardUrl", exportName |-> cfg.stackPrefix \o "-DashboardUrl"]}]

-----------------------------------------------------------------------------
(* Values of the variables of a part of the system that is not running *)

NoConfig == [none |-> TRUE]
NoStack == [construct |-> "none"]

AppIdle ==
    /\ context = <<>>
    /\ pc = "idle"
    /\ config = NoConfig
    /\ stacks = <<>>
    /\ dependencies = {}

EngineIdle ==
    /\ deployed = {}
    /\ deleted = {}
    /\ cloud = {}
    /\ objects = 0

ScriptIdle ==
    /\ ARG1 = <<>>
    /\ ENVIRONMENT = ""
    /\ typed = [eof |-> FALSE, line |-> <<>>]
    /\ CONFIRM = ""
    /\ shpc = "idle"
    /\ exitStatus = -1
    /\ commands = <<>>
    /\ output = <<>>

MonitoringIdle ==
    /\ lambdaFunctions = <<>>
    /\ monitoring = NoStack
    /\ observed = 0
    /\ windows = <<>>
    /\ alarmState = "INSUFFICIENT_DATA"

NoObject == [state |-> "absent", age |-> 0, storageClass |-> "STANDARD", transitionedAt |-> -1]

LifecycleIdle ==
    /\ bucketLifecycle = [status |-> "none", rules |-> <<>>]
    /\ audioObject = NoObject

DeployIdle ==
    /\ awsConfigured = FALSE
    /\ awsRegion = <<>>
    /\ nodeModules = FALSE
    /\ ACCOUNT_ID = ""
    /\ REGION = ""

NoUser ==
    [status |-> "none", attributes |-> <<>>, createdWith |-> <<>>,
     lastUpdate |-> [name |-> "", value |-> "", accepted |-> FALSE]]

DirectoryIdle == user = NoUser

-----------------------------------------------------------------------------
(* bin/readafull.ts *)

\* The dependency recorded the wrong way round.
addDependencyReversed(deps, from, to) == deps \cup {<<to.id, from.id>>}

\* Stack.addDependency(target): records that `from` depends on `to`.
addDependency(deps, from, to) == deps \cup {<<from.id, to.id>>}

\* A stack name that leaves the prefix of the environment out.
StackNameWithoutPrefix(cfg, role) == "Readafull-" \o role

\* `${config.stackPrefix}-<role>`
StackName(cfg, role) == cfg.stackPrefix \o "-" \o role

\* const environment = app.node.tryGetContext('environment') || 'development';
\* const config = getEnvironmentConfig(environment); stackProps reads fields
\* of config without dereferencing a nested one.
ResolveConfig ==
    /\ pc = "start"
    /\ LET environment ==
            IF context = <<>> \/ context[1] = "" THEN "development" ELSE context[1]
       IN  config' = getEnvironmentConfig(environment)
    /\ pc' = "resolved"
    /\ UNCHANGED <<context, stacks, dependencies>>
    /\ UNCHANGED <<engineVars, scriptVars, monitoringVars,
                 lifecycleVars, deployVars, directoryVars>>

\* new AuthStack(app, `${config.stackPrefix}-Auth`, config, stackProps); the
\* constructor reads config.cognito.userPoolName, a TypeError when config is
\* not an EnvironmentConfig.
CreateAuthStack ==
    /\ pc = "resolved"
    /\ IF IsEnvironmentConfig(config)
       THEN /\ stacks' = ("authStack" :> AuthStack(StackName(config, "Auth"), config)) @@ stacks
            /\ pc' = "authCreated"
       ELSE /\ stacks' = stacks
            /\ pc' = "error"
    /\ UNCHANGED <<context, config, dependencies>>
    /\ UNCHANGED <<engineVars, scriptVars, monitoringVars,
                 lifecycleVars, deployVars, directoryVars>>

CreateStorageStack ==
    /\ pc = "authCreated"
    /\ stacks' =
          ("storageStack" :> StorageStack(StackName(config, "Storage"), config)) @@ stacks
    /\ pc' = "storageCreated"
    /\ UNCHANGED <<context, config, dependencies>>
    /\ UNCHANGED <<engineVars, scriptVars, monitoringVars,
                 lifecycleVars, deployVars, directoryVars>>

CreateApiStack ==
    /\ pc = "storageCreated"
    /\ stacks' =
          ("apiStack" :>
              ApiStack(StackName(config, "Api"), config,
                       [userPool |-> stacks.authStack.userPool,
                        mainTable |-> stacks.storageStack.mainTable,
                        audioBucket |-> stacks.storageStack.audioBucket])) @@ stacks
    /\ pc' = "apiCreated"
    /\ UNCHANGED <<context, config, dependencies>>
    /\ UNCHANGED <<engineVars, scriptVars, monitoringVars,
                 lifecycleVars, deployVars, directoryVars>>

AddDependencyApiAuthSkipped ==
    /\ pc = "apiCreated"
    /\ pc' = "apiDependsOnAuth"
    /\ UNCHANGED <<context, config, stacks, dependencies>>
    /\ UNCHANGED <<engineVars, scriptVars, monitoringVars,
                 lifecycleVars, deployVars, directoryVars>>

\* apiStack.addDependency(authStack)
AddDependencyApiAuth ==
    /\ pc = "apiCreated"
    /\ dependencies' = addDependency(dependencies, stacks.apiStack, stacks.authStack)
    /\ pc' = "apiDependsOnAuth"
    /\ UNCHANGED <<context, config, stacks>>
    /\ UNCHANGED <<engineVars, scriptVars, monitoringVars,
                 lifecycleVars, deployVars, directoryVars>>

\* apiStack.addDependency(storageStack)
AddDependencyApiStorage ==
    /\ pc = "apiDependsOnAuth"
    /\ dependencies' = addDependency(dependencies, stacks.apiStack, stacks.storageStack)
    /\ pc' = "apiDependsOnStorage"
    /\ UNCHANGED <<context, config, stacks>>
    /\ UNCHANGED <<engineVars, scriptVars, monitoringVars,
                 lifecycleVars, deployVars, directoryVars>>

\* The function list the entry point hands to the Monitoring stack.
EntryPointLambdaFunctions ==
    <<stacks.apiStack.textGenerationFunction,
      stacks.apiStack.translationFunction,
      stacks.apiStack.ttsGenerationFunction,
      stacks.apiStack.audioProcessingFunction,
      stacks.apiStack.userProfileFunction>>

CreateMonitoringStack ==
    /\ pc = "apiDependsOnStorage"
    /\ stacks' =
          ("monitoringStack" :>
              MonitoringStack(StackName(config, "Monitoring"), config,
                              EntryPointLambdaFunctions)) @@ stacks
    /\ pc' = "monitoringCreated"
    /\ UNCHANGED <<context, config, dependencies>>
    /\ UNCHANGED <<engineVars, scriptVars, monitoringVars,
                 lifecycleVars, deployVars, directoryVars>>

AddDependencyMonitoringApiSkipped ==
    /\ pc = "monitoringCreated"
    /\ pc' = "monitoringDependsOnApi"
    /\ UNCHANGED <<context, config, stacks, dependencies>>
    /\ UNCHANGED <<engineVars, scriptVars, monitoringVars,
                 lifecycleVars, deployVars, directoryVars>>

\* monitoringStack.addDependency(apiStack)
AddDependencyMonitoringApi ==
    /\ pc = "monitoringCreated"
    /\ dependencies' =
          addDependency(dependencies, stacks.monitoringStack, stacks.apiStack)
    /\ pc' = "monitoringDependsOnApi"
    /\ UNCHANGED <<context, config, stacks>>
    /\ UNCHANGED <<engineVars, scriptVars, monitoringVars,
                 lifecycleVars, deployVars, directoryVars>>

\* app.synth()
Synth ==
    /\ pc = "monitoringDependsOnApi"
    /\ pc' = "synthesized"
    /\ UNCHANGED <<context, config, stacks, dependencies>>
    /\ UNCHANGED <<engineVars, scriptVars, monitoringVars,
                 lifecycleVars, deployVars, directoryVars>>

-----------------------------------------------------------------------------
(* The deployment engine behind `cdk deploy --all` and `cdk destroy --all` *)

SeqToSet(q) == {q[i] : i \in DOMAIN q}

\* The physical resources a stack declares. removalPolicy is the declared one,
\* "DEFAULT" where the stack declares none and the resource is deleted with it.
Resources(stack) ==
    CASE stack.construct = "AuthStack" ->
            {[type |-> "UserPool", name |-> stack.userPool.userPoolName,
              removalPolicy |-> stack.userPool.removalPolicy, autoDeleteObjects |-> FALSE],
             [type |-> "UserPoolClient", name |-> stack.userPoolClient.userPoolClientName,
              removalPolicy |-> "DEFAULT", autoDeleteObjects |-> FALSE]}
      [] stack.construct = "StorageStack" ->
            {[type |-> "Table", name |-> stack.mainTable.tableName,
              removalPolicy |-> stack.mainTable.removalPolicy, autoDeleteObjects |-> FALSE],
             [type |-> "Bucket", name |-> stack.audioBucket.bucketName,
              removalPolicy |-> stack.audioBucket.removalPolicy,
              autoDeleteObjects |-> stack.audioBucket.autoDeleteObjects]}
      [] stack.construct = "ApiStack" ->
            {[type |-> "Function", name |-> f.functionName,
              removalPolicy |-> "DEFAULT", autoDeleteObjects |-> FALSE]
                : f \in {stack[n] : n \in SeqToSet(ApiFunctionNames)}}
      [] stack.construct = "MonitoringStack" ->
            {[type |-> "Topic", name |-> stack.alarmTopic.topicName,
              removalPolicy |-> "DEFAULT", autoDeleteObjects |-> FALSE],
             [type |-> "Dashboard", name |-> stack.dashboard.dashboardName,
              removalPolicy |-> "DEFAULT", autoDeleteObjects |-> FALSE]}
            \cup {[type |-> "LogGroup", name |-> g.logGroupName,
                   removalPolicy |-> g.removalPolicy, autoDeleteObjects |-> FALSE]
                     : g \in SeqToSet(stack.logGroups)}
            \cup {[type |-> "Alarm", name |-> a.alarmName,
                   removalPolicy |-> "DEFAULT", autoDeleteObjects |-> FALSE]
                     : a \in SeqToSet(stack.alarms)}

\* The resource as it exists in the cloud.
Physical(r) == [type |-> r.type, name |-> r.name]

SynthesizedStacks == {stacks[v] : v \in DOMAIN stacks}

\* The resources of other stacks a stack was handed by the entry point.
ReceivedResources(stack) ==
    CASE stack.construct = "ApiStack" ->
            {stack.props.userPool, stack.props.mainTable, stack.props.audioBucket}
      [] stack.construct = "MonitoringStack" -> SeqToSet(stack.props.lambdaFunctions)
      [] OTHER -> {}

DependenciesOf(id) == {d[2] : d \in {e \in dependencies : e[1] = id}}
DependentsOf(id) == {d[1] : d \in {e \in dependencies : e[2] = id}}

\* A non-empty bucket can only be deleted when its objects are deleted first.
CanDelete(r) ==
    r.type = "Bucket" /\ objects > 0 => r.autoDeleteObjects

\* The engine applies a stack once the stacks it depends on are applied.
DeployStack(stack) ==
    /\ pc = "synthesized"
    /\ stack.id \notin deployed \cup deleted
    /\ DependenciesOf(stack.id) \subseteq deployed
    /\ deployed' = deployed \cup {stack.id}
    /\ cloud' = cloud \cup {Physical(r) : r \in Resources(stack)}
    /\ UNCHANGED <<deleted, objects>>
    /\ UNCHANGED <<appVars, scriptVars, monitoringVars,
                 lifecycleVars, deployVars, directoryVars>>

\* The engine removes a stack once no applied stack depends on it; a resource
\* with removal policy RETAIN is left in place, the others are deleted, a
\* bucket together with its objects.
DestroyStack(stack) ==
    /\ pc = "synthesized"
    /\ stack.id \in deployed
    /\ DependentsOf(stack.id) \cap deployed = {}
    /\ LET removed == {r \in Resources(stack) : r.removalPolicy # "RETAIN"}
       IN  IF \A r \in removed : CanDelete(r)
           THEN /\ deployed' = deployed \ {stack.id}
                /\ deleted' = deleted \cup {stack.id}
                /\ cloud' = cloud \ {Physical(r) : r \in removed}
                /\ objects' = IF \E r \in removed : r.type = "Bucket" THEN 0 ELSE objects
           ELSE \* DELETE_FAILED: the stack and the bucket stay
                /\ cloud' = cloud \ {Physical(r) : r \in {x \in removed : CanDelete(x)}}
                /\ UNCHANGED <<deployed, deleted, objects>>
    /\ UNCHANGED <<appVars, scriptVars, monitoringVars,
                 lifecycleVars, deployVars, directoryVars>>

\* A client uploads an audio file to the bucket (the CORS rule allows PUT).
PutObject ==
    /\ pc = "synthesized"
    /\ \E r \in Resources(stacks.storageStack) :
          r.type = "Bucket" /\ Physical(r) \in cloud
    /\ objects < MaxObjects
    /\ objects' = objects + 1
    /\ UNCHANGED <<deployed, deleted, cloud>>
    /\ UNCHANGED <<appVars, scriptVars, monitoringVars,
                 lifecycleVars, deployVars, directoryVars>>

-----------------------------------------------------------------------------
(* One run of the entry point followed by the engine *)

Init ==
    /\ context \in {<<>>} \cup {<<s>> : s \in Selectors}
    /\ pc = "start"
    /\ config = NoConfig
    /\ stacks = <<>>
    /\ dependencies = {}
    /\ EngineIdle
    /\ ScriptIdle
    /\ MonitoringIdle
    /\ LifecycleIdle
    /\ DeployIdle
    /\ DirectoryIdle

Next ==
    \/ ResolveConfig
    \/ CreateAuthStack
    \/ CreateStorageStack
    \/ CreateApiStack
    \/ AddDependencyApiAuth
    \/ AddDependencyApiStorage
    \/ CreateMonitoringStack
    \/ AddDependencyMonitoringApi
    \/ Synth
    \/ \E stack \in SynthesizedStacks : DeployStack(stack)
    \/ \E stack \in SynthesizedStacks : DestroyStack(stack)
    \/ PutObject

Spec == Init /\ [][Next]_vars

-----------------------------------------------------------------------------
(* scripts/destroy.sh *)

\* First arguments the script is started with, besides none at all.
ScriptArguments == {"development", "staging", "production", "qa", ""}

\* A typed line is a sequence of pieces: " " is a blank, "\\" a backslash,
\* anything else a run of ordinary characters. No line of the set has a
\* backslash before a blank or at its end.
TypedLines ==
    {<<>>,
     <<"yes">>,
     <<"destroy-", "development">>,
     <<"destroy-", "staging">>,
     <<"destroy-", "production">>,
     <<"destroy-", "qa">>,
     <<"Destroy-", "development">>,
     <<"DESTROY-PRODUCTION">>,
     <<"destroy-", "development", " ", "now">>,
     <<" ", "destroy-", "development">>,
     <<"destroy-", "production", " ">>,
     <<"destroy-", "\\", "staging">>,
     <<"no">>,
     <<"y">>,
     <<"Yes">>,
     <<" ", "yes">>,
     <<"yes", " ">>,
     <<"y", "\\", "es">>}

\* What the operator does at the prompt: types a line, or ends the input.
TypedInputs ==
    {[eof |-> TRUE, line |-> <<>>]} \cup {[eof |-> FALSE, line |-> l] : l \in TypedLines}

RECURSIVE Concat(_)
\* The string made of the pieces of a line.
Concat(line) ==
    IF line = <<>> THEN "" ELSE Head(line) \o Concat(Tail(line))

RECURSIVE StripLeading(_)
StripLeading(line) ==
    IF line # <<>> /\ Head(line) = " " THEN StripLeading(Tail(line)) ELSE line

RECURSIVE StripTrailing(_)
StripTrailing(line) ==
    IF line # <<>> /\ line[Len(line)] = " "
    THEN StripTrailing(SubSeq(line, 1, Len(line) - 1))
    ELSE line

\* `read -p ... CONFIRM` (no -r, default IFS): leading and trailing blanks are
\* stripped and each backslash is removed, the character after it kept.
Read(line) ==
    LET stripped == StripTrailing(StripLeading(line))
    IN  Concat(SelectSeq(stripped, LAMBDA piece : piece # "\\"))

\* ENVIRONMENT=${1:-development} and the banner and warning lines
DestroyStart ==
    /\ shpc = "start"
    /\ ENVIRONMENT' = IF ARG1 = <<>> \/ ARG1[1] = "" THEN "development" ELSE ARG1[1]
    /\ output' = output \o
          <<"Destroying Readafull Infrastructure",
            "Environment: " \o ENVIRONMENT',
            "WARNING: This will destroy all resources in the " \o ENVIRONMENT'
                \o " environment!",
            "This action cannot be undone.">>
    /\ shpc' = "prompt"
    /\ UNCHANGED <<ARG1, typed, CONFIRM, exitStatus, commands>>
    /\ UNCHANGED <<appVars, engineVars, monitoringVars,
                 lifecycleVars, deployVars, directoryVars>>

\* read -p "... Type 'destroy-$ENVIRONMENT' to confirm: " CONFIRM; at the end
\* of input read fails and set -e ends the script.
DestroyRead ==
    /\ shpc = "prompt"
    /\ \E input \in TypedInputs :
          /\ typed' = input
          /\ IF input.eof
             THEN /\ exitStatus' = 1
                  /\ shpc' = "exited"
                  /\ CONFIRM' = CONFIRM
             ELSE /\ CONFIRM' = Read(input.line)
                  /\ shpc' = "confirm"
                  /\ exitStatus' = exitStatus
    /\ UNCHANGED <<ARG1, ENVIRONMENT, commands, output>>
    /\ UNCHANGED <<appVars, engineVars, monitoringVars,
                 lifecycleVars, deployVars, directoryVars>>

\* if [ "$CONFIRM" != "destroy-$ENVIRONMENT" ]; then echo cancelled; exit 0; fi
DestroyConfirm ==
    /\ shpc = "confirm"
    /\ IF CONFIRM # "destroy-" \o ENVIRONMENT
       THEN /\ output' = Append(output, "Destruction cancelled.")
            /\ exitStatus' = 0
            /\ shpc' = "exited"
       ELSE /\ output' = Append(output, "Destroying all stacks...")
            /\ exitStatus' = exitStatus
            /\ shpc' = "destroy"
    /\ UNCHANGED <<ARG1, ENVIRONMENT, typed, CONFIRM, commands>>
    /\ UNCHANGED <<appVars, engineVars, monitoringVars,
                 lifecycleVars, deployVars, directoryVars>>

\* npm run cdk:destroy -- --all --context environment=$ENVIRONMENT --force;
\* when the command fails set -e ends the script with its status.
DestroyAll ==
    /\ shpc = "destroy"
    /\ commands' = Append(commands,
          [command |-> "cdk:destroy", all |-> TRUE, force |-> TRUE,
           context |-> "environment=" \o ENVIRONMENT])
    /\ \E succeeded \in BOOLEAN :
          IF succeeded
          THEN /\ output' = Append(output, "Destruction completed!")
               /\ exitStatus' = 0
          ELSE /\ output' = output
               /\ exitStatus' = 1
    /\ shpc' = "exited"
    /\ UNCHANGED <<ARG1, ENVIRONMENT, typed, CONFIRM>>
    /\ UNCHANGED <<appVars, engineVars, monitoringVars,
                 lifecycleVars, deployVars, directoryVars>>

InitDestroy ==
    /\ AppIdle
    /\ EngineIdle
    /\ MonitoringIdle
    /\ ARG1 \in {<<>>} \cup {<<a>> : a \in ScriptArguments}
    /\ ENVIRONMENT = ""
    /\ typed = [eof |-> FALSE, line |-> <<>>]
    /\ CONFIRM = ""
    /\ shpc = "start"
    /\ exitStatus = -1
    /\ commands = <<>>
    /\ output = <<>>
    /\ LifecycleIdle
    /\ DeployIdle
    /\ DirectoryIdle

NextDestroy ==
    \/ DestroyStart
    \/ DestroyRead
    \/ DestroyConfirm
    \/ DestroyAll

SpecDestroy == InitDestroy /\ [][NextDestroy]_vars

-----------------------------------------------------------------------------
(* scripts/deploy.sh *)

\* Regions `aws configure get region` prints, besides none being set.
ConfiguredRegions == {"us-east-1", "eu-west-1"}

\* The account `aws sts get-caller-identity --query Account` prints.
AccountId == "123456789012"

\* The exit statuses of the aws command when it has no valid credentials.
AwsFailureStatuses == {253, 255}

\* A run of the script ends with a status.
Exit(status) ==
    /\ exitStatus' = status
    /\ shpc' = "exited"

\* ENVIRONMENT=${1:-development} and the banner
DeployStart ==
    /\ shpc = "deployStart"
    /\ ENVIRONMENT' = IF ARG1 = <<>> \/ ARG1[1] = "" THEN "development" ELSE ARG1[1]
    /\ output' = output \o
          <<"Deploying Readafull Infrastructure", "Environment: " \o ENVIRONMENT'>>
    /\ shpc' = "credentials"
    /\ UNCHANGED <<ARG1, typed, CONFIRM, exitStatus, commands>>
    /\ UNCHANGED <<appVars, engineVars, monitoringVars,
                   lifecycleVars, deployVars, directoryVars>>

\* The credential check left out: the script goes on to the next step.
DeployCheckCredentialsSkipped ==
    /\ shpc = "credentials"
    /\ shpc' = "bootstrap"
    /\ UNCHANGED <<ARG1, ENVIRONMENT, typed, CONFIRM, exitStatus, commands, output>>
    /\ UNCHANGED <<appVars, engineVars, monitoringVars,
                   lifecycleVars, deployVars, directoryVars>>

\* if ! aws sts get-caller-identity > /dev/null 2>&1; then echo Error; exit 1; fi
DeployCheckCredentials ==
    /\ shpc = "credentials"
    /\ commands' = Append(commands, [command |-> "aws sts get-caller-identity"])
    /\ IF ~awsConfigured
       THEN /\ output' = Append(output,
                  "Error: AWS CLI is not configured. Please run 'aws configure' first.")
            /\ Exit(1)
       ELSE /\ output' = output
            /\ shpc' = "bootstrap"
            /\ exitStatus' = exitStatus
    /\ UNCHANGED <<ARG1, ENVIRONMENT, typed, CONFIRM>>
    /\ UNCHANGED <<appVars, engineVars, monitoringVars,
                   lifecycleVars, deployVars, directoryVars>>

\* ACCOUNT_ID=$(aws sts get-caller-identity --query Account --output text): a
\* failing command substitution ends the script under set -e with its status.
\* REGION=$(aws configure get region || echo "us-east-1")
DeployBootstrapStatus ==
    /\ shpc = "bootstrap"
    /\ IF awsConfigured
       THEN /\ ACCOUNT_ID' = AccountId
            /\ REGION' = IF awsRegion = <<>> THEN "us-east-1" ELSE awsRegion[1]
            /\ commands' = commands \o
                  <<[command |-> "aws sts get-caller-identity"],
                    [command |-> "aws configure get region"]>>
            /\ output' = output \o
                  <<"Checking CDK bootstrap status...",
                    "Account: " \o ACCOUNT_ID', "Region: " \o REGION'>>
            /\ shpc' = "install"
            /\ exitStatus' = exitStatus
       ELSE /\ commands' = Append(commands, [command |-> "aws sts get-caller-identity"])
            /\ output' = Append(output, "Checking CDK bootstrap status...")
            /\ \E status \in AwsFailureStatuses : Exit(status)
            /\ UNCHANGED <<ACCOUNT_ID, REGION>>
    /\ UNCHANGED <<ARG1, ENVIRONMENT, typed, CONFIRM>>
    /\ UNCHANGED <<awsConfigured, awsRegion, nodeModules>>
    /\ UNCHANGED <<appVars, engineVars, monitoringVars, lifecycleVars, directoryVars>>

\* The exit statuses of an npm command: 0, or 1 when it fails.
NpmStatuses == {0, 1}

\* An npm command run without set -e: the script goes on whatever its status.
RunNpmIgnoringFailure(command, announcement, next) ==
    /\ output' = Append(output, announcement)
    /\ \E status \in NpmStatuses :
          commands' = Append(commands, [status |-> status] @@ command)
    /\ shpc' = next
    /\ exitStatus' = exitStatus

\* An npm command of the script, recorded with its exit status: when it
\* fails, set -e ends the script with its status; otherwise the script goes on
\* at `next`.
RunNpm(command, announcement, next) ==
    /\ output' = Append(output, announcement)
    /\ \E status \in NpmStatuses :
          /\ commands' = Append(commands, [status |-> status] @@ command)
          /\ IF status = 0
             THEN /\ shpc' = next
                  /\ exitStatus' = exitStatus
             ELSE Exit(status)

\* if [ ! -d "node_modules" ]; then npm install; fi
DeployInstall ==
    /\ shpc = "install"
    /\ IF ~nodeModules
       THEN /\ RunNpm([command |-> "npm install"], "Installing dependencies...", "build")
            /\ nodeModules' = (shpc' = "build")
       ELSE /\ shpc' = "build"
            /\ UNCHANGED <<nodeModules, exitStatus, commands, output>>
    /\ UNCHANGED <<ARG1, ENVIRONMENT, typed, CONFIRM>>
    /\ UNCHANGED <<awsConfigured, awsRegion, ACCOUNT_ID, REGION>>
    /\ UNCHANGED <<appVars, engineVars, monitoringVars, lifecycleVars, directoryVars>>

\* npm run build
DeployBuild ==
    /\ shpc = "build"
    /\ RunNpm([command |-> "build"], "Building TypeScript...", "synth")
    /\ UNCHANGED <<ARG1, ENVIRONMENT, typed, CONFIRM>>
    /\ UNCHANGED <<appVars, engineVars, monitoringVars,
                   lifecycleVars, deployVars, directoryVars>>

\* npm run cdk:synth -- --context environment=$ENVIRONMENT
DeploySynth ==
    /\ shpc = "synth"
    /\ RunNpm([command |-> "cdk:synth", context |-> "environment=" \o ENVIRONMENT],
              "Synthesizing CloudFormation templates...", "diff")
    /\ UNCHANGED <<ARG1, ENVIRONMENT, typed, CONFIRM>>
    /\ UNCHANGED <<appVars, engineVars, monitoringVars,
                   lifecycleVars, deployVars, directoryVars>>

\* npm run cdk:diff -- --context environment=$ENVIRONMENT || true
DeployDiff ==
    /\ shpc = "diff"
    /\ \E status \in NpmStatuses :
          commands' = Append(commands,
              [command |-> "cdk:diff", status |-> status,
               context |-> "environment=" \o ENVIRONMENT])
    /\ output' = Append(output, "Showing infrastructure changes...")
    /\ shpc' = "deployPrompt"
    /\ UNCHANGED <<ARG1, ENVIRONMENT, typed, CONFIRM, exitStatus>>
    /\ UNCHANGED <<appVars, engineVars, monitoringVars,
                   lifecycleVars, deployVars, directoryVars>>

\* read -p "Do you want to proceed with deployment? (yes/no): " CONFIRM; at
\* the end of input read fails and set -e ends the script.
DeployRead ==
    /\ shpc = "deployPrompt"
    /\ \E input \in TypedInputs :
          /\ typed' = input
          /\ IF input.eof
             THEN /\ Exit(1)
                  /\ CONFIRM' = CONFIRM
             ELSE /\ CONFIRM' = Read(input.line)
                  /\ shpc' = "deployConfirm"
                  /\ exitStatus' = exitStatus
    /\ UNCHANGED <<ARG1, ENVIRONMENT, commands, output>>
    /\ UNCHANGED <<appVars, engineVars, monitoringVars,
                   lifecycleVars, deployVars, directoryVars>>

\* if [ "$CONFIRM" != "yes" ]; then echo "Deployment cancelled."; exit 0; fi
DeployConfirm ==
    /\ shpc = "deployConfirm"
    /\ IF CONFIRM # "yes"
       THEN /\ output' = Append(output, "Deployment cancelled.")
            /\ Exit(0)
       ELSE /\ output' = Append(output, "Deploying all stacks...")
            /\ exitStatus' = exitStatus
            /\ shpc' = "deploy"
    /\ UNCHANGED <<ARG1, ENVIRONMENT, typed, CONFIRM, commands>>
    /\ UNCHANGED <<appVars, engineVars, monitoringVars,
                   lifecycleVars, deployVars, directoryVars>>

\* npm run cdk:deploy -- --all --context environment=$ENVIRONMENT
\* --require-approval never
DeployAll ==
    /\ shpc = "deploy"
    /\ commands' = Append(commands,
          [command |-> "cdk:deploy", all |-> TRUE, requireApproval |-> "never",
           context |-> "environment=" \o ENVIRONMENT])
    /\ \E succeeded \in BOOLEAN :
          IF succeeded
          THEN /\ output' = Append(output, "Deployment completed successfully!")
               /\ Exit(0)
          ELSE /\ output' = output
               /\ Exit(1)
    /\ UNCHANGED <<ARG1, ENVIRONMENT, typed, CONFIRM>>
    /\ UNCHANGED <<appVars, engineVars, monitoringVars,
                   lifecycleVars, deployVars, directoryVars>>

-----------------------------------------------------------------------------
(* scripts/setup.sh *)

\* The lines the script prints are kept without their leading check mark.

\* Major versions `node -v` prints on a host where Node.js is installed.
NodeVersions == {16, 18, 20}

\* The banner, the Node.js check (installed, and version 18 or later) and the
\* AWS CLI check; each failing check prints its error and exits with status 1.
SetupStart ==
    /\ shpc = "setupStart"
    /\ \E nodeInstalled \in BOOLEAN, NODE_VERSION \in NodeVersions,
          awsInstalled \in BOOLEAN :
          IF ~nodeInstalled
          THEN /\ output' = output \o
                     <<"Setting up Readafull Infrastructure",
                       "Error: Node.js is not installed. Please install Node.js 18 or later.">>
               /\ Exit(1)
          ELSE IF NODE_VERSION < 18
          THEN /\ output' = output \o
                     <<"Setting up Readafull Infrastructure",
                       "Error: Node.js version must be 18 or later. Current version: v"
                          \o ToString(NODE_VERSION)>>
               /\ Exit(1)
          ELSE IF ~awsInstalled
          THEN /\ output' = output \o
                     <<"Setting up Readafull Infrastructure",
                       "Error: AWS CLI is not installed. Please install AWS CLI.">>
               /\ Exit(1)
          ELSE /\ output' = Append(output, "Setting up Readafull Infrastructure")
               /\ shpc' = "setupCredentials"
               /\ exitStatus' = exitStatus
    /\ UNCHANGED <<ARG1, ENVIRONMENT, typed, CONFIRM, commands>>
    /\ UNCHANGED <<appVars, engineVars, monitoringVars,
                   lifecycleVars, deployVars, directoryVars>>

\* if ! aws sts get-caller-identity > /dev/null 2>&1; then echo Error; exit 1; fi
SetupCheckCredentials ==
    /\ shpc = "setupCredentials"
    /\ commands' = Append(commands, [command |-> "aws sts get-caller-identity"])
    /\ IF ~awsConfigured
       THEN /\ output' = Append(output,
                  "Error: AWS CLI is not configured. Please run 'aws configure' first.")
            /\ Exit(1)
       ELSE /\ output' = output
            /\ shpc' = "setupIdentity"
            /\ exitStatus' = exitStatus
    /\ UNCHANGED <<ARG1, ENVIRONMENT, typed, CONFIRM>>
    /\ UNCHANGED <<appVars, engineVars, monitoringVars,
                   lifecycleVars, deployVars, directoryVars>>

\* ACCOUNT_ID=$(aws sts get-caller-identity --query Account --output text)
\* REGION=$(aws configure get region || echo "us-east-1")
SetupIdentity ==
    /\ shpc = "setupIdentity"
    /\ ACCOUNT_ID' = AccountId
    /\ REGION' = IF awsRegion = <<>> THEN "us-east-1" ELSE awsRegion[1]
    /\ commands' = commands \o
          <<[command |-> "aws sts get-caller-identity"],
            [command |-> "aws configure get region"]>>
    /\ output' = output \o
          <<"AWS Account: " \o ACCOUNT_ID', "AWS Region: " \o REGION'>>
    /\ shpc' = "setupInstall"
    /\ UNCHANGED <<ARG1, ENVIRONMENT, typed, CONFIRM, exitStatus>>
    /\ UNCHANGED <<awsConfigured, awsRegion, nodeModules>>
    /\ UNCHANGED <<appVars, engineVars, monitoringVars, lifecycleVars, directoryVars>>

\* npm install
SetupInstall ==
    /\ shpc = "setupInstall"
    /\ RunNpm([command |-> "npm install"], "Installing npm dependencies...", "setupBuild")
    /\ nodeModules' = (nodeModules \/ shpc' = "setupBuild")
    /\ UNCHANGED <<ARG1, ENVIRONMENT, typed, CONFIRM>>
    /\ UNCHANGED <<awsConfigured, awsRegion, ACCOUNT_ID, REGION>>
    /\ UNCHANGED <<appVars, engineVars, monitoringVars, lifecycleVars, directoryVars>>

\* npm run build
SetupBuild ==
    /\ shpc = "setupBuild"
    /\ RunNpm([command |-> "build"], "Building TypeScript...", "setupBootstrap")
    /\ UNCHANGED <<ARG1, ENVIRONMENT, typed, CONFIRM>>
    /\ UNCHANGED <<appVars, engineVars, monitoringVars,
                   lifecycleVars, deployVars, directoryVars>>

\* if aws cloudformation describe-stacks --stack-name CDKToolkit --region
\* $REGION; then echo already bootstrapped; else npx cdk bootstrap
\* aws://$ACCOUNT_ID/$REGION; fi: a failing bootstrap ends the script under
\* set -e, otherwise the script ends with status 0.
SetupBootstrap ==
    /\ shpc = "setupBootstrap"
    /\ \E bootstrapped \in BOOLEAN, status \in NpmStatuses :
          LET describe ==
                 [command |-> "aws cloudformation describe-stacks",
                  stackName |-> "CDKToolkit", region |-> REGION,
                  status |-> IF bootstrapped THEN 0 ELSE 255]
              bootstrap ==
                 [command |-> "cdk bootstrap",
                  environment |-> "aws://" \o ACCOUNT_ID \o "/" \o REGION,
                  account |-> ACCOUNT_ID, region |-> REGION, status |-> status]
          IN  IF bootstrapped
              THEN /\ status = 0
                   /\ commands' = Append(commands, describe)
                   /\ output' = output \o
                         <<"Checking CDK bootstrap status...",
                           "CDK already bootstrapped in " \o REGION,
                           "Setup completed successfully!">>
                   /\ Exit(0)
              ELSE /\ commands' = commands \o <<describe, bootstrap>>
                   /\ IF status = 0
                      THEN /\ output' = output \o
                                 <<"Checking CDK bootstrap status...",
                                   "Bootstrapping CDK in " \o REGION \o "...",
                                   "CDK bootstrapped",
                                   "Setup completed successfully!">>
                           /\ Exit(0)
                      ELSE /\ output' = output \o
                                 <<"Checking CDK bootstrap status...",
                                   "Bootstrapping CDK in " \o REGION \o "...">>
                           /\ Exit(status)
    /\ UNCHANGED <<ARG1, ENVIRONMENT, typed, CONFIRM>>
    /\ UNCHANGED <<appVars, engineVars, monitoringVars,
                   lifecycleVars, deployVars, directoryVars>>

\* The operator starts one of the three scripts on a host.
InitScripts ==
    /\ AppIdle
    /\ EngineIdle
    /\ MonitoringIdle
    /\ LifecycleIdle
    /\ DirectoryIdle
    /\ awsConfigured \in BOOLEAN
    /\ awsRegion \in {<<>>} \cup {<<r>> : r \in ConfiguredRegions}
    /\ nodeModules \in BOOLEAN
    /\ ACCOUNT_ID = ""
    /\ REGION = ""
    /\ ARG1 \in {<<>>} \cup {<<a>> : a \in ScriptArguments}
    /\ ENVIRONMENT = ""
    /\ typed = [eof |-> FALSE, line |-> <<>>]
    /\ CONFIRM = ""
    /\ shpc \in {"deployStart", "start", "setupStart"}
    /\ exitStatus = -1
    /\ commands = <<>>
    /\ output = <<>>

NextScripts ==
    \/ DeployStart
    \/ DeployCheckCredentials
    \/ DeployBootstrapStatus
    \/ DeployInstall
    \/ DeployBuild
    \/ DeploySynth
    \/ DeployDiff
    \/ DeployRead
    \/ DeployConfirm
    \/ DeployAll
    \/ DestroyStart
    \/ DestroyRead
    \/ DestroyConfirm
    \/ DestroyAll
    \/ SetupStart
    \/ SetupCheckCredentials
    \/ SetupIdentity
    \/ SetupInstall
    \/ SetupBuild
    \/ SetupBootstrap

SpecScripts == InitScripts /\ [][NextScripts]_vars

-----------------------------------------------------------------------------
(* The Monitoring stack over any list of compute units, and its alarms *)

\* Number of compute units lists are drawn from.
MaxFunctions == 5

\* The compute units lists are drawn from: the five of the Api stack first.
FunctionPool(cfg) ==
    [k \in 1..MaxFunctions |->
        LambdaFunction(StackName(cfg, "Api"), cfg,
            IF k \in DOMAIN ApiFunctionNames THEN ApiFunctionNames[k]
            ELSE "function" \o ToString(k))]

\* The list of the pool's units with an index in S, in the pool's order.
SubList(pool, S) ==
    [i \in 1..Cardinality(S) |->
        pool[CHOOSE k \in S : Cardinality({j \in S : j < k}) = i - 1]]

FunctionLists(cfg) == {SubList(FunctionPool(cfg), S) : S \in SUBSET (1..MaxFunctions)}

\* A data point of a 5-minute window: <<>> when the window has no data.
Missing == <<>>

DataPoints(alarm) ==
    {Missing, <<0>>, <<alarm.threshold>>, <<alarm.threshold + 1>>}

Compare(comparisonOperator, value, threshold) ==
    CASE comparisonOperator = "GreaterThanThreshold" -> value > threshold
      [] comparisonOperator = "GreaterThanOrEqualToThreshold" -> value >= threshold
      [] comparisonOperator = "LessThanThreshold" -> value < threshold
      [] comparisonOperator = "LessThanOrEqualToThreshold" -> value <= threshold

\* Whether a window counts as breaching for an alarm.
Breaching(alarm, dataPoint) ==
    IF dataPoint = Missing
    THEN alarm.treatMissingData = "breaching"
    ELSE Compare(alarm.comparisonOperator, dataPoint[1], alarm.threshold)

\* The alarm's state after a window, from its last evaluationPeriods windows.
Evaluate(alarm, recent, state) ==
    LET n == Len(recent)
        evaluated == SubSeq(recent, n - alarm.evaluationPeriods + 1, n)
        missing == {i \in DOMAIN evaluated : evaluated[i] = Missing}
    IN  IF alarm.treatMissingData = "ignore" /\ missing # {} THEN state
        ELSE IF alarm.treatMissingData = "missing" /\ missing = DOMAIN evaluated
             THEN "INSUFFICIENT_DATA"
        ELSE IF \A i \in DOMAIN evaluated : Breaching(alarm, evaluated[i])
             THEN "ALARM"
        ELSE "OK"

\* new MonitoringStack(app, `${config.stackPrefix}-Monitoring`, config,
\* { lambdaFunctions }, stackProps)
NewMonitoringStack ==
    /\ monitoring.construct = "none"
    /\ monitoring' =
          MonitoringStack(StackName(config, "Monitoring"), config, lambdaFunctions)
    /\ UNCHANGED <<lambdaFunctions, observed, windows, alarmState>>
    /\ UNCHANGED <<appVars, engineVars, scriptVars,
                 lifecycleVars, deployVars, directoryVars>>

\* One of the declared alarms starts being evaluated; no window has data yet.
ObserveAlarm ==
    /\ monitoring.construct = "MonitoringStack"
    /\ observed = 0
    /\ \E k \in DOMAIN monitoring.alarms :
          /\ observed' = k
          /\ windows' = [i \in 1..(monitoring.alarms[k].evaluationPeriods + 1) |-> Missing]
    /\ alarmState' = "INSUFFICIENT_DATA"
    /\ UNCHANGED <<lambdaFunctions, monitoring>>
    /\ UNCHANGED <<appVars, engineVars, scriptVars,
                 lifecycleVars, deployVars, directoryVars>>

\* A 5-minute window closes, with or without a data point, and the alarm is
\* evaluated.
MetricWindow ==
    /\ observed # 0
    /\ LET alarm == monitoring.alarms[observed]
       IN  \E dataPoint \in DataPoints(alarm) :
              /\ windows' = Append(Tail(windows), dataPoint)
              /\ alarmState' = Evaluate(alarm, windows', alarmState)
    /\ UNCHANGED <<lambdaFunctions, monitoring, observed>>
    /\ UNCHANGED <<appVars, engineVars, scriptVars,
                 lifecycleVars, deployVars, directoryVars>>

InitMonitoring ==
    /\ context = <<>>
    /\ pc = "idle"
    /\ config \in {configs[e] : e \in DOMAIN configs}
    /\ stacks = <<>>
    /\ dependencies = {}
    /\ EngineIdle
    /\ ScriptIdle
    /\ lambdaFunctions \in FunctionLists(config)
    /\ monitoring = NoStack
    /\ observed = 0
    /\ windows = <<>>
    /\ alarmState = "INSUFFICIENT_DATA"
    /\ LifecycleIdle
    /\ DeployIdle
    /\ DirectoryIdle

NextMonitoring ==
    \/ NewMonitoringStack
    \/ ObserveAlarm
    \/ MetricWindow

SpecMonitoring == InitMonitoring /\ [][NextMonitoring]_vars

-----------------------------------------------------------------------------
(* Properties of the entry point and of the engine, under Spec *)

SupportedSelectors == {"development", "staging", "production"}

\* The entry point has called getEnvironmentConfig.
Resolved == pc \notin {"idle", "start"}

\* C1: for every selector s of development, staging, production the resolver
\* returns the record whose environment field is s and whose stackPrefix,
\* table name, bucket name and user-pool name are the ones written for s.
C1_SupportedSelectorResolvesToItsRecord ==
    LET written ==
            [development |->
                <<"Readafull-Dev", "readafull-main-table-dev",
                  "readafull-audio-storage-dev", "readafull-users-dev">>,
             staging |->
                <<"Readafull-Staging", "readafull-main-table-staging",
                  "readafull-audio-storage-staging", "readafull-users-staging">>,
             production |->
                <<"Readafull-Prod", "readafull-main-table-prod",
                  "readafull-audio-storage-prod", "readafull-users-prod">>]
    IN  \A s \in SupportedSelectors :
            (Resolved /\ context = <<s>>) =>
                /\ config.environment = s
                /\ <<config.stackPrefix, config.dynamodb.tableName,
                     config.s3.audioBucketName, config.cognito.userPoolName>>
                       = written[s]

C1_Witness ==
    /\ pc = "resolved"
    /\ context = <<"production">>
    /\ config.environment = "production"

\* C2: for any selector that is not exactly development, staging or
\* production the resolver returns the development record and no error is
\* raised.
C2_UnsupportedSelectorResolvesToDevelopment ==
    (Resolved /\ (context = <<>> \/ context[1] \notin SupportedSelectors)) =>
        /\ config = configs.development
        /\ pc # "error"

\* C3: the table and the bucket have removal policy RETAIN in production and
\* DESTROY otherwise (the bucket then with autoDeleteObjects); once the
\* Storage stack is torn down, the production table and bucket exist and the
\* bucket's objects are the ones it held, while the development and staging
\* table, bucket and objects are gone.
C3_RetainInProductionDestroyOtherwise ==
    /\ [](("storageStack" \in DOMAIN stacks) =>
            LET storage == stacks.storageStack
                production == config.environment = "production"
                expected == IF production THEN "RETAIN" ELSE "DESTROY"
                table == [type |-> "Table", name |-> config.dynamodb.tableName]
                bucket == [type |-> "Bucket", name |-> config.s3.audioBucketName]
            IN  /\ config.environment \in SupportedSelectors
                /\ storage.mainTable.removalPolicy = expected
                /\ storage.audioBucket.removalPolicy = expected
                /\ storage.audioBucket.autoDeleteObjects = ~production
                /\ storage.id \in deleted =>
                      IF production
                      THEN table \in cloud /\ bucket \in cloud
                      ELSE table \notin cloud /\ bucket \notin cloud /\ objects = 0)
    /\ [][(/\ "storageStack" \in DOMAIN stacks
           /\ config.environment = "production"
           /\ stacks.storageStack.id \notin deleted
           /\ stacks.storageStack.id \in deleted') => objects' = objects]_vars

C3_Witness ==
    /\ "storageStack" \in DOMAIN stacks
    /\ config.environment = "production"
    /\ stacks.storageStack.id \in deleted
    /\ objects = 1
    /\ [type |-> "Bucket", name |-> "readafull-audio-storage-prod"] \in cloud

\* C5: a stack is applied only after the stacks it depends on (Auth and
\* Storage before Api, Api before Monitoring) and removed only after the
\* stacks that depend on it; no state has a deployed stack one of whose
\* dependencies is not deployed.
C5_DeployedStacksHaveTheirDependenciesDeployed ==
    /\ \A stack \in SynthesizedStacks :
          stack.id \in deployed => DependenciesOf(stack.id) \subseteq deployed
    /\ pc = "synthesized" =>
          LET auth == stacks.authStack.id
              storage == stacks.storageStack.id
              api == stacks.apiStack.id
              mon == stacks.monitoringStack.id
          IN  /\ api \in deployed => {auth, storage} \subseteq deployed
              /\ mon \in deployed => api \in deployed
              /\ (auth \in deleted \/ storage \in deleted) =>
                    api \notin deployed /\ mon \notin deployed
              /\ api \in deleted => mon \notin deployed

C5_Witness ==
    /\ pc = "synthesized"
    /\ {stacks.monitoringStack.id, stacks.apiStack.id} \subseteq deleted
    /\ stacks.authStack.id \in deployed
    /\ stacks.storageStack.id \in deleted

\* C6: the declared dependency relation is exactly Api -> Auth, Api -> Storage,
\* Monitoring -> Api; Auth and Storage have no dependencies and the relation
\* is acyclic, for every selector the entry point synthesizes.
C6_DependencyRelationIsExactAndAcyclic ==
    LET ids == {stack.id : stack \in SynthesizedStacks}
        Reach[k \in 0..4] ==
            IF k = 0 THEN dependencies
            ELSE Reach[k - 1] \cup
                 {e \in ids \X ids :
                     \E b \in ids :
                        <<e[1], b>> \in Reach[k - 1] /\ <<b, e[2]>> \in dependencies}
    IN  /\ \A x \in ids : <<x, x>> \notin Reach[4]
        /\ pc \in {"monitoringDependsOnApi", "synthesized"} =>
              LET auth == stacks.authStack.id
                  storage == stacks.storageStack.id
                  api == stacks.apiStack.id
                  mon == stacks.monitoringStack.id
              IN  /\ dependencies = {<<api, auth>>, <<api, storage>>, <<mon, api>>}
                  /\ DependenciesOf(auth) = {}
                  /\ DependenciesOf(storage) = {}
                  /\ Cardinality({auth, storage, api, mon}) = 4

C6_Witness ==
    /\ pc = "synthesized"
    /\ context = <<"staging">>
    /\ <<"Readafull-Staging-Monitoring", "Readafull-Staging-Api">> \in dependencies

\* C7: at synthesis the Api stack has received only the Auth stack's user
\* pool and the Storage stack's table and bucket, the Monitoring stack only
\* the five compute units of the Api stack, and every stack's received
\* resources belong to stacks it was declared to depend on.
C7_ReferencesAreCoveredByDependencies ==
    pc = "synthesized" =>
        LET auth == stacks.authStack
            storage == stacks.storageStack
            api == stacks.apiStack
            mon == stacks.monitoringStack
        IN  /\ ReceivedResources(api) =
                  {auth.userPool, storage.mainTable, storage.audioBucket}
            /\ auth.userPool.stack = auth.id
            /\ storage.mainTable.stack = storage.id
            /\ storage.audioBucket.stack = storage.id
            /\ Cardinality(ReceivedResources(mon)) = 5
            /\ \A f \in ReceivedResources(mon) : f.stack = api.id
            /\ \A stack \in SynthesizedStacks :
                  {r.stack : r \in ReceivedResources(stack)}
                      \subseteq DependenciesOf(stack.id)

C7_Witness ==
    /\ pc = "synthesized"
    /\ Cardinality(ReceivedResources(stacks.monitoringStack)) = 5
    /\ Cardinality(ReceivedResources(stacks.apiStack)) = 3
    /\ DependenciesOf(stacks.monitoringStack.id) = {stacks.apiStack.id}

\* C8: the duration alarm threshold of every compute unit is exactly 80% of
\* the configured timeout in milliseconds: 24000 in development (30 s), 48000
\* in staging and production (60 s).
C8_DurationThresholdIsEightyPercentOfTimeout ==
    ("monitoringStack" \in DOMAIN stacks) =>
        LET alarms == stacks.monitoringStack.alarms
            duration == {k \in DOMAIN alarms : alarms[k].metric.metricName = "Duration"}
        IN  /\ Cardinality(duration) = 5
            /\ \A k \in duration :
                  /\ alarms[k].threshold * 10 = config.lambda.timeout * 1000 * 8
                  /\ alarms[k].threshold =
                        IF config.environment = "development" THEN 24000 ELSE 48000
            /\ config.lambda.timeout =
                  IF config.environment = "development" THEN 30 ELSE 60

C8_Witness ==
    /\ "monitoringStack" \in DOMAIN stacks
    /\ config.environment = "staging"
    /\ \E k \in DOMAIN stacks.monitoringStack.alarms :
          /\ stacks.monitoringStack.alarms[k].metric.metricName = "Duration"
          /\ stacks.monitoringStack.alarms[k].threshold = 48000

\* The retention tiers the log service supports, in days.
SupportedRetentionTiers == {RetentionDays[k] : k \in DOMAIN RetentionDays}

\* C12: the retention of every compute unit's log group is the supported tier
\* that matches the configured logRetentionDays, 7 days for development, 14
\* for staging and 30 for production, and it is seven days only when the
\* configured value matches no tier exactly.
C12_LogRetentionMatchesConfiguredDays ==
    ("monitoringStack" \in DOMAIN stacks) =>
        LET groups == stacks.monitoringStack.logGroups
            days == config.monitoring.logRetentionDays
        IN  /\ Len(groups) = 5
            /\ days = CASE config.environment = "development" -> 7
                        [] config.environment = "staging" -> 14
                        [] config.environment = "production" -> 30
            /\ \A i \in DOMAIN groups :
                  groups[i].retention =
                      IF days \in SupportedRetentionTiers THEN days ELSE 7

\* The selector the entry point resolves: the context value, or development
\* when the context has none.
SelectorOf(ctx) == IF ctx = <<>> \/ ctx[1] = "" THEN "development" ELSE ctx[1]

\* The entry point has run to its end, normally or with an error.
EntryPointDone == pc \in {"synthesized", "error"}

\* C15: for every environment selector, the absent one counted as
\* development, one synthesis creates exactly four stacks, named
\* <stackPrefix>-Auth, -Storage, -Api and -Monitoring, all built from the one
\* resolved configuration record, and the four names are a function of the
\* selector.
C15_FourStacksNamedFromOneConfiguration ==
    EntryPointDone =>
        LET resolved == getEnvironmentConfig(SelectorOf(context))
        IN  /\ pc = "synthesized"
            /\ config = resolved
            /\ DOMAIN stacks = {"authStack", "storageStack", "apiStack", "monitoringStack"}
            /\ stacks.authStack.id = resolved.stackPrefix \o "-Auth"
            /\ stacks.storageStack.id = resolved.stackPrefix \o "-Storage"
            /\ stacks.apiStack.id = resolved.stackPrefix \o "-Api"
            /\ stacks.monitoringStack.id = resolved.stackPrefix \o "-Monitoring"
            /\ Cardinality({stack.id : stack \in SynthesizedStacks}) = 4
            /\ stacks.authStack = AuthStack(stacks.authStack.id, config)
            /\ stacks.storageStack = StorageStack(stacks.storageStack.id, config)
            /\ stacks.apiStack.userProfileFunction.functionName =
                  config.appName \o "-userProfileFunction-" \o config.environment
            /\ stacks.monitoringStack =
                  MonitoringStack(stacks.monitoringStack.id, config,
                                  EntryPointLambdaFunctions)

\* C16: in every environment the table and the bucket are declared with
\* encryption at rest, the table with AWS-managed and the bucket with
\* S3-managed encryption; no selector produces a Storage stack in which either
\* is unencrypted.
C16_TableAndBucketEncryptedAtRest ==
    /\ \A stack \in SynthesizedStacks :
          stack.construct = "StorageStack" =>
              /\ stack.mainTable.encryption = "AWS_MANAGED"
              /\ stack.audioBucket.encryption = "S3_MANAGED"
              /\ stack.mainTable.tableName = config.dynamodb.tableName
              /\ stack.audioBucket.bucketName = config.s3.audioBucketName
    /\ \A r \in cloud :
          r.type \in {"Table", "Bucket"} =>
              /\ "storageStack" \in DOMAIN stacks
              /\ r.name \in {stacks.storageStack.mainTable.tableName,
                             stacks.storageStack.audioBucket.bucketName}

C16_Witness ==
    /\ "storageStack" \in DOMAIN stacks
    /\ config.environment = "production"
    /\ stacks.storageStack.audioBucket.encryption = "S3_MANAGED"
    /\ stacks.storageStack.mainTable.encryption = "AWS_MANAGED"
    /\ [type |-> "Bucket", name |-> "readafull-audio-storage-prod"] \in cloud
    /\ [type |-> "Table", name |-> "readafull-main-table-prod"] \in cloud

\* The external identity providers of spec section 4.2.
FederatedProviders == {"Google", "Facebook", "SignInWithApple"}

\* C18: in every environment the Auth stack declares no federated
\* identity-provider resource and holds no client id or client secret of
\* Google, Facebook or Apple, and the application client it declares has no
\* generated secret.
C18_NoFederatedProviderNorSecretDeclared ==
    \A stack \in SynthesizedStacks :
        stack.construct = "AuthStack" =>
            /\ stack.identityProviders = {}
            /\ {r.type : r \in Resources(stack)} = {"UserPool", "UserPoolClient"}
            /\ ~stack.userPoolClient.generateSecret
            /\ DOMAIN stack.userPoolClient \cap {"clientId", "clientSecret"} = {}
            /\ DOMAIN config.cognito =
                  {"userPoolName", "allowedCallbackURLs", "allowedLogoutURLs"}
            /\ \A o \in stack.outputs :
                  o.name \in {"UserPoolId", "UserPoolArn", "UserPoolClientId"}

C18_Witness ==
    /\ "authStack" \in DOMAIN stacks
    /\ config.environment = "production"
    /\ stacks.authStack.id \in deployed
    /\ [type |-> "UserPoolClient", name |-> "readafull-mobile-client"] \in cloud
    /\ FederatedProviders \subseteq
          SeqToSet(stacks.authStack.userPoolClient.supportedIdentityProviders)
    /\ stacks.authStack.identityProviders = {}

\* The metrics the alarms of a Monitoring stack watch, with their namespace.
AlarmedMetrics(stack) ==
    {<<a.metric.namespace, a.metric.metricName>> : a \in SeqToSet(stack.alarms)}

\* C19: the Monitoring stack declares alarms for Lambda function errors,
\* throttles and duration, and for API Gateway 4XX and 5XX errors.
C19_AlarmsCoverLambdaAndApiGateway ==
    ("monitoringStack" \in DOMAIN stacks) =>
        {<<"AWS/Lambda", "Errors">>, <<"AWS/Lambda", "Throttles">>,
         <<"AWS/Lambda", "Duration">>,
         <<"AWS/ApiGateway", "4XXError">>, <<"AWS/ApiGateway", "5XXError">>}
            \subseteq AlarmedMetrics(stacks.monitoringStack)

\* value.environment as the resolver receives it: a value without that
\* property gives undefined, which `environment || 'development'` treats as
\* it treats the empty string.
EnvironmentField(value) ==
    IF "environment" \in DOMAIN value THEN value.environment ELSE ""

\* C20: the resolver is a deterministic, idempotent function of the selector:
\* the resolved value is the resolver's value at the selector, and resolving
\* the environment field of the resolved value gives the resolved value
\* again.
C20_ResolverIsIdempotent ==
    Resolved =>
        /\ config = getEnvironmentConfig(SelectorOf(context))
        /\ getEnvironmentConfig(EnvironmentField(config)) = config

\* C23: the shared notification topic has an email subscription if and only
\* if the resolved configuration carries an alert destination, which is so in
\* production only; in development and staging the topic has no subscriber,
\* and in every environment all alarms are routed to the topic.
C23_EmailSubscriptionInProductionOnly ==
    ("monitoringStack" \in DOMAIN stacks) =>
        LET topic == stacks.monitoringStack.alarmTopic
            alarms == stacks.monitoringStack.alarms
            destination == "alarmEmail" \in DOMAIN config.monitoring
        IN  /\ destination <=> config.environment = "production"
            /\ topic.subscriptions # {} <=> destination
            /\ config.environment = "production" =>
                  topic.subscriptions =
                      {[protocol |-> "email", endpoint |-> "alerts@readafull.com"]}
            /\ config.environment \in {"development", "staging"} =>
                  topic.subscriptions = {}
            /\ Len(alarms) = 15
            /\ \A k \in DOMAIN alarms : alarms[k].alarmActions = {topic.topicName}

C23_Witness ==
    /\ "monitoringStack" \in DOMAIN stacks
    /\ context = <<"production">>
    /\ stacks.monitoringStack.alarmTopic.subscriptions =
          {[protocol |-> "email", endpoint |-> "alerts@readafull.com"]}

\* The four stacks the entry point creates from one configuration record.
AppStacks(cfg) ==
    LET auth == AuthStack(StackName(cfg, "Auth"), cfg)
        storage == StorageStack(StackName(cfg, "Storage"), cfg)
        api == ApiStack(StackName(cfg, "Api"), cfg,
                        [userPool |-> auth.userPool,
                         mainTable |-> storage.mainTable,
                         audioBucket |-> storage.audioBucket])
        fns == <<api.textGenerationFunction, api.translationFunction,
                 api.ttsGenerationFunction, api.audioProcessingFunction,
                 api.userProfileFunction>>
    IN  [authStack |-> auth,
         storageStack |-> storage,
         apiStack |-> api,
         monitoringStack |-> MonitoringStack(StackName(cfg, "Monitoring"), cfg, fns)]

\* The names by which a synthesized application addresses its stacks, stack
\* outputs, table, bucket, user pool, alarm topic and dashboard.
AddressedNames(ss) ==
    {[kind |-> "stack", name |-> ss[v].id] : v \in DOMAIN ss}
    \cup {[kind |-> "export", name |-> o.exportName] :
            o \in ss.authStack.outputs \cup ss.storageStack.outputs
                    \cup ss.monitoringStack.outputs}
    \cup {[kind |-> "table", name |-> ss.storageStack.mainTable.tableName],
          [kind |-> "bucket", name |-> ss.storageStack.audioBucket.bucketName],
          [kind |-> "userPool", name |-> ss.authStack.userPool.userPoolName],
          [kind |-> "topic", name |-> ss.monitoringStack.alarmTopic.topicName],
          [kind |-> "dashboard", name |-> ss.monitoringStack.dashboard.dashboardName]}

\* C25: for any two distinct selectors among development, staging and
\* production, the four stack names, the export names of the stack outputs,
\* the table, bucket, user-pool, alarm-topic and dashboard names differ, so
\* the application synthesized for one of them addresses no resource of
\* another.
C25_EnvironmentsIsolatedByName ==
    /\ \A a, b \in SupportedSelectors :
          a # b =>
             LET na == AddressedNames(AppStacks(getEnvironmentConfig(a)))
                 nb == AddressedNames(AppStacks(getEnvironmentConfig(b)))
             IN  /\ na \cap nb = {}
                 /\ {n.name : n \in na} \cap {n.name : n \in nb} = {}
                 /\ Cardinality(na) = 18
    /\ (pc = "synthesized" /\ SelectorOf(context) \in SupportedSelectors) =>
          /\ stacks = AppStacks(config)
          /\ \A other \in SupportedSelectors \ {SelectorOf(context)} :
                {n.name : n \in AddressedNames(stacks)}
                   \cap {n.name : n \in AddressedNames(AppStacks(getEnvironmentConfig(other)))}
                = {}

C25_Witness ==
    /\ pc = "synthesized"
    /\ context = <<"staging">>
    /\ [kind |-> "stack", name |-> "Readafull-Staging-Storage"] \in AddressedNames(stacks)
    /\ [kind |-> "bucket", name |-> "readafull-audio-storage-staging"]
          \in AddressedNames(stacks)
    /\ cloud # {}

\* C26: for every string selector, the names every JavaScript object
\* inherits ("constructor", "toString", "__proto__") included, the value
\* getEnvironmentConfig returns is one of the three configuration records,
\* with all its fields populated.
C26_EverySelectorResolvesToARecord ==
    Resolved =>
        /\ IsEnvironmentConfig(config)
        /\ {"region", "appName", "environment", "stackPrefix", "cognito",
            "dynamodb", "s3", "api", "lambda", "monitoring"} \subseteq DOMAIN config

\* C27: every identity provider the application client lists as supported
\* exists in the directory when the Auth stack creates the client: it is the
\* directory's own provider, or a federated provider the stack declares (and
\* so creates before the client).
C27_SupportedProvidersExistAtClientCreation ==
    \A stack \in SynthesizedStacks :
        stack.construct = "AuthStack" =>
            \A p \in SeqToSet(stack.userPoolClient.supportedIdentityProviders) :
                \/ p = "COGNITO"
                \/ \E declared \in stack.identityProviders : declared.providerName = p

\* C29: in production every resource declared with an explicit removal
\* policy (user pool, table, bucket, log groups of the compute units) has
\* policy RETAIN and no resource has automatic content deletion; in every
\* environment the bucket's objects are deleted automatically exactly when
\* the bucket's removal policy is DESTROY.
C29_ProductionResourcesRetained ==
    \A stack \in SynthesizedStacks :
        \A r \in Resources(stack) :
            /\ (config.environment = "production" /\ r.removalPolicy # "DEFAULT") =>
                  r.removalPolicy = "RETAIN"
            /\ config.environment = "production" => ~r.autoDeleteObjects
            /\ r.type = "Bucket" =>
                  (r.autoDeleteObjects <=> r.removalPolicy = "DESTROY")

-----------------------------------------------------------------------------
(* Properties of the destroy script, under SpecDestroy *)

\* C4: the destroy script runs the teardown command only when the string
\* typed at the prompt is exactly "destroy-" followed by the environment; for
\* every other typed string it prints a cancellation, exits with status 0 and
\* never runs the teardown command.
C4_TeardownOnlyOnExactPhrase ==
    (shpc \in {"destroy", "exited"} /\ ~typed.eof) =>
        \/ Concat(typed.line) = "destroy-" \o ENVIRONMENT
        \/ /\ commands = <<>>
           /\ shpc = "exited"
           /\ exitStatus = 0
           /\ \E i \in DOMAIN output : output[i] = "Destruction cancelled."

-----------------------------------------------------------------------------
(* Properties of the Monitoring stack, under SpecMonitoring *)

MonitoringBuilt == monitoring.construct = "MonitoringStack"

\* C9: for every list of compute units exactly three alarms are declared per
\* unit: error sum > 10, throttle sum > 5 and average duration above the
\* duration threshold, each with a 5-minute period, 2 evaluation periods and a
\* strict greater-than comparison, and each has the shared topic as its alarm
\* action.
C9_ThreeAlarmsPerUnitRoutedToTheTopic ==
    MonitoringBuilt =>
        LET alarms == monitoring.alarms
            fns == lambdaFunctions
        IN  /\ Len(alarms) = 3 * Len(fns)
            /\ \A i \in DOMAIN fns :
                  LET mine == {k \in DOMAIN alarms :
                                  alarms[k].metric.functionName = fns[i].functionName}
                  IN  /\ Cardinality(mine) = 3
                      /\ {<<alarms[k].metric.metricName, alarms[k].metric.statistic,
                            alarms[k].threshold * 10>> : k \in mine}
                           = {<<"Errors", "Sum", 100>>,
                              <<"Throttles", "Sum", 50>>,
                              <<"Duration", "Average", config.lambda.timeout * 8000>>}
            /\ \A k \in DOMAIN alarms :
                  /\ alarms[k].metric.periodMinutes = 5
                  /\ alarms[k].evaluationPeriods = 2
                  /\ alarms[k].comparisonOperator = "GreaterThanThreshold"
                  /\ alarms[k].alarmActions = {monitoring.alarmTopic.topicName}

C9_Witness ==
    /\ MonitoringBuilt
    /\ Len(lambdaFunctions) = 5
    /\ Len(monitoring.alarms) = 15
    /\ \A k \in DOMAIN monitoring.alarms :
          monitoring.alarms[k].alarmActions = {"Readafull-Prod-alarms"}

\* C10: every declared alarm treats missing data as not breaching: a window
\* with no data point never puts an alarm in the alarm state nor keeps it
\* there, and if either of the last two windows has no data the alarm is not
\* in the alarm state.
C10_MissingDataNeverBreaches ==
    /\ MonitoringBuilt =>
          \A k \in DOMAIN monitoring.alarms :
              monitoring.alarms[k].treatMissingData = "notBreaching"
    /\ observed # 0 =>
          LET n == Len(windows)
          IN  (windows[n] = Missing \/ windows[n - 1] = Missing) => alarmState # "ALARM"

C10_Witness ==
    /\ observed # 0
    /\ LET alarm == monitoring.alarms[observed]
       IN  windows = <<(<<alarm.threshold + 1>>), (<<alarm.threshold + 1>>), Missing>>
    /\ alarmState = "OK"

-----------------------------------------------------------------------------
(* The audio bucket's lifecycle rule applied to an object, day by day *)

\* Largest age in days an object is followed to.
MaxAgeDays == 91

\* new StorageStack(app, `${config.stackPrefix}-Storage`, config, stackProps)
NewStorageStack ==
    /\ pc = "idle"
    /\ "storageStack" \notin DOMAIN stacks
    /\ stacks' =
          ("storageStack" :> StorageStack(StackName(config, "Storage"), config)) @@ stacks
    /\ UNCHANGED <<context, pc, config, dependencies>>
    /\ UNCHANGED <<engineVars, scriptVars, monitoringVars,
                   lifecycleVars, deployVars, directoryVars>>

\* Whether the object store takes a rule without question: it documents that
\* the days of the expiration must be greater than the days of a transition.
WellOrdered(rule) ==
    \A i \in DOMAIN rule.transitions :
        rule.expirationDays > rule.transitions[i].transitionAfterDays

\* The bucket is created with lifecycleRules. A rule that is not well ordered
\* is either refused, and the bucket has no lifecycle, or taken as written.
PutBucketLifecycleConfiguration ==
    /\ "storageStack" \in DOMAIN stacks
    /\ bucketLifecycle.status = "none"
    /\ LET rules == stacks.storageStack.audioBucket.lifecycleRules
       IN  \E accepted \in BOOLEAN :
              /\ (\A i \in DOMAIN rules : WellOrdered(rules[i])) => accepted
              /\ bucketLifecycle' =
                    IF accepted THEN [status |-> "applied", rules |-> rules]
                    ELSE [status |-> "rejected", rules |-> <<>>]
    /\ UNCHANGED audioObject
    /\ UNCHANGED <<appVars, engineVars, scriptVars, monitoringVars,
                   deployVars, directoryVars>>

\* An audio file is stored in the bucket.
PutAudioObject ==
    /\ bucketLifecycle.status = "applied"
    /\ audioObject.state = "absent"
    /\ audioObject' = [audioObject EXCEPT !.state = "stored"]
    /\ UNCHANGED bucketLifecycle
    /\ UNCHANGED <<appVars, engineVars, scriptVars, monitoringVars,
                   deployVars, directoryVars>>

\* The object after the daily lifecycle run at a given age: an enabled rule
\* whose expiration age is reached deletes the object, and the deletion takes
\* precedence over a transition due on the same day; otherwise a transition
\* whose age is reached moves the object to its storage class.
ApplyLifecycle(rules, object, age) ==
    LET enabled == {i \in DOMAIN rules : rules[i].enabled}
        expiring == {i \in enabled : age >= rules[i].expirationDays}
        due == {t \in UNION {SeqToSet(rules[i].transitions) : i \in enabled} :
                    /\ age >= t.transitionAfterDays
                    /\ object.storageClass # t.storageClass}
    IN  IF expiring # {}
        THEN [object EXCEPT !.state = "expired", !.age = age]
        ELSE IF due # {}
        THEN [object EXCEPT !.age = age,
                            !.storageClass = (CHOOSE t \in due : TRUE).storageClass,
                            !.transitionedAt = age]
        ELSE [object EXCEPT !.age = age]

\* A day passes for the stored object.
LifecycleDay ==
    /\ audioObject.state = "stored"
    /\ audioObject.age < MaxAgeDays
    /\ audioObject' = ApplyLifecycle(bucketLifecycle.rules, audioObject, audioObject.age + 1)
    /\ UNCHANGED bucketLifecycle
    /\ UNCHANGED <<appVars, engineVars, scriptVars, monitoringVars,
                   deployVars, directoryVars>>

InitLifecycle ==
    /\ context = <<>>
    /\ pc = "idle"
    /\ config \in {configs[e] : e \in DOMAIN configs}
    /\ stacks = <<>>
    /\ dependencies = {}
    /\ EngineIdle
    /\ ScriptIdle
    /\ MonitoringIdle
    /\ LifecycleIdle
    /\ DeployIdle
    /\ DirectoryIdle

NextLifecycle ==
    \/ NewStorageStack
    \/ PutBucketLifecycleConfiguration
    \/ PutAudioObject
    \/ LifecycleDay

SpecLifecycle == InitLifecycle /\ [][NextLifecycle]_vars

-----------------------------------------------------------------------------
(* Properties of the lifecycle rule, under SpecLifecycle *)

\* The retention window of spec section 4.3, by environment.
RetentionWindow == [development |-> 30, staging |-> 60, production |-> 90]

\* C11: in every environment the lifecycle rule first moves an object to
\* INTELLIGENT_TIERING at age 30 days and afterwards expires it at the
\* environment's retention window, 30 days for development, 60 for staging and
\* 90 for production: the rule is taken by the store, an object of age 30 or
\* more is in the cheaper tier since age 30, and an expired object expired at
\* the window after having been moved.
C11_TransitionAtThirtyDaysThenExpiry ==
    /\ ("storageStack" \in DOMAIN stacks) =>
          LET rules == stacks.storageStack.audioBucket.lifecycleRules
          IN  /\ Len(rules) = 1
              /\ rules[1].enabled
              /\ rules[1].expirationDays = RetentionWindow[config.environment]
              /\ rules[1].transitions =
                    <<[storageClass |-> "INTELLIGENT_TIERING", transitionAfterDays |-> 30]>>
    /\ bucketLifecycle.status # "rejected"
    /\ (audioObject.state = "stored" /\ audioObject.age >= 30) =>
          /\ audioObject.storageClass = "INTELLIGENT_TIERING"
          /\ audioObject.transitionedAt = 30
    /\ audioObject.state = "stored" => audioObject.age < RetentionWindow[config.environment]
    /\ audioObject.state = "expired" =>
          /\ audioObject.age = RetentionWindow[config.environment]
          /\ audioObject.transitionedAt = 30
          /\ audioObject.transitionedAt < audioObject.age

\* C28: in every environment the age at which the lifecycle rule expires an
\* object is strictly greater than the age at which it moves the object to
\* the cheaper tier.
C28_ExpirationAfterTransition ==
    ("storageStack" \in DOMAIN stacks) =>
        LET rules == stacks.storageStack.audioBucket.lifecycleRules
        IN  \A i \in DOMAIN rules :
               \A t \in DOMAIN rules[i].transitions :
                  rules[i].transitions[t].transitionAfterDays < rules[i].expirationDays

-----------------------------------------------------------------------------
(* Properties of the deploy and destroy scripts, under SpecScripts *)

\* The script that runs, or ran, is deploy.sh and it is past its banner.
DeployRunning == output # <<>> /\ output[1] = "Deploying Readafull Infrastructure"

\* The npm commands and the prompt that follow the credential check.
AfterCredentialCheck ==
    {"npm install", "build", "cdk:synth", "cdk:diff", "cdk:deploy"}

\* C13: when the AWS CLI is not authenticated, the deploy script reports the
\* error and exits with status 1 before running dependency installation,
\* build, synth, diff, the confirmation prompt or the deploy command; nothing
\* is deployed.
C13_UnauthenticatedDeployExitsBeforeAnyStep ==
    (DeployRunning /\ ~awsConfigured /\ shpc # "credentials") =>
        /\ shpc = "exited"
        /\ exitStatus = 1
        /\ output[Len(output)] =
              "Error: AWS CLI is not configured. Please run 'aws configure' first."
        /\ \A i \in DOMAIN commands : commands[i].command \notin AfterCredentialCheck
        /\ typed = [eof |-> FALSE, line |-> <<>>]
        /\ CONFIRM = ""
        /\ deployed = {} /\ cloud = {}

C13_Witness ==
    /\ DeployRunning
    /\ ~awsConfigured
    /\ shpc = "exited"
    /\ exitStatus = 1
    /\ commands = <<[command |-> "aws sts get-caller-identity"]>>

\* Whether the script has run the npm command of a given name.
HasRun(name) == \E i \in DOMAIN commands : commands[i].command = name

\* C14: each script reaches its resource-mutating command (cdk deploy, cdk
\* destroy) only after the prompt has been answered with the accepted phrase,
\* exactly "yes" for deploy and "destroy-" followed by the environment for
\* destroy; for any other answer the deploy script exits with status 0
\* without running cdk deploy.
C14_MutatingCommandOnlyAfterAcceptedAnswer ==
    /\ HasRun("cdk:deploy") => (~typed.eof /\ Concat(typed.line) = "yes")
    /\ HasRun("cdk:destroy") =>
          (~typed.eof /\ Concat(typed.line) = "destroy-" \o ENVIRONMENT)
    /\ (/\ DeployRunning
        /\ shpc \in {"deploy", "exited"}
        /\ HasRun("cdk:diff")
        /\ ~typed.eof
        /\ Concat(typed.line) # "yes") =>
            /\ shpc = "exited"
            /\ exitStatus = 0
            /\ ~HasRun("cdk:deploy")
            /\ output[Len(output)] = "Deployment cancelled."

-----------------------------------------------------------------------------
(* The user pool of the Auth stack as a directory of user records *)

\* Values an attribute is given, besides being left unset.
AttributeValues == {"a", "b"}

\* The value of an attribute that has none.
Unset == ""

\* new AuthStack(app, `${config.stackPrefix}-Auth`, config, stackProps)
NewAuthStack ==
    /\ pc = "idle"
    /\ "authStack" \notin DOMAIN stacks
    /\ stacks' = ("authStack" :> AuthStack(StackName(config, "Auth"), config)) @@ stacks
    /\ UNCHANGED <<context, pc, config, dependencies>>
    /\ UNCHANGED <<engineVars, scriptVars, monitoringVars,
                   lifecycleVars, deployVars, directoryVars>>

\* The schema of a user pool: its standard and custom attributes by name.
Schema(userPool) == userPool.standardAttributes @@ userPool.customAttributes

\* A user record is created (sign-up, or creation by an administrator): the
\* required attributes are given, any other may be given or left unset.
CreateUser ==
    /\ "authStack" \in DOMAIN stacks
    /\ user.status = "none"
    /\ LET schema == Schema(stacks.authStack.userPool)
       IN  \E email \in AttributeValues, provider \in AttributeValues \cup {Unset} :
              LET given == [n \in DOMAIN schema |->
                              CASE n = "email" -> email
                                [] n = "provider" -> provider
                                [] OTHER -> Unset]
              IN  /\ \A n \in DOMAIN schema :
                        ("required" \in DOMAIN schema[n] /\ schema[n].required)
                            => given[n] # Unset
                  /\ user' = [status |-> "created",
                              attributes |-> given,
                              createdWith |-> given,
                              lastUpdate |-> [name |-> "", value |-> "", accepted |-> FALSE]]
    /\ UNCHANGED <<appVars, engineVars, scriptVars, monitoringVars,
                   lifecycleVars, deployVars>>

\* An attribute update of an existing user: the directory refuses the update
\* of an attribute whose schema entry is not mutable and applies any other.
UpdateUserAttributes ==
    /\ user.status = "created"
    /\ LET schema == Schema(stacks.authStack.userPool)
       IN  \E n \in DOMAIN schema, v \in AttributeValues :
              LET accepted == schema[n].mutable
              IN  user' = [user EXCEPT
                              !.attributes[n] = IF accepted THEN v ELSE @,
                              !.lastUpdate = [name |-> n, value |-> v,
                                              accepted |-> accepted]]
    /\ UNCHANGED <<appVars, engineVars, scriptVars, monitoringVars,
                   lifecycleVars, deployVars>>

InitDirectory ==
    /\ context = <<>>
    /\ pc = "idle"
    /\ config \in {configs[e] : e \in DOMAIN configs}
    /\ stacks = <<>>
    /\ dependencies = {}
    /\ EngineIdle
    /\ ScriptIdle
    /\ MonitoringIdle
    /\ LifecycleIdle
    /\ DeployIdle
    /\ DirectoryIdle

NextDirectory ==
    \/ NewAuthStack
    \/ CreateUser
    \/ UpdateUserAttributes

SpecDirectory == InitDirectory /\ [][NextDirectory]_vars

-----------------------------------------------------------------------------
(* Properties of the user pool, under SpecDirectory *)

UpdatableAttributes ==
    {"difficulty_preference", "preferred_language",
     "email", "givenName", "familyName", "profilePicture"}

\* C17: the custom attribute provider is immutable: it keeps the value the
\* user record was created with and every later update of it is refused,
\* while difficulty_preference, preferred_language and the standard
\* attributes email, given name, family name and profile picture are updated
\* when asked.
C17_ProviderIsSetOnceAtCreation ==
    /\ ("authStack" \in DOMAIN stacks) =>
          LET schema == Schema(stacks.authStack.userPool)
          IN  /\ DOMAIN schema = UpdatableAttributes \cup {"provider"}
              /\ ~schema.provider.mutable
              /\ \A n \in UpdatableAttributes : schema[n].mutable
    /\ user.status = "created" =>
          /\ user.attributes.provider = user.createdWith.provider
          /\ user.lastUpdate.name = "provider" => ~user.lastUpdate.accepted
          /\ user.lastUpdate.name \in UpdatableAttributes =>
                /\ user.lastUpdate.accepted
                /\ user.attributes[user.lastUpdate.name] = user.lastUpdate.value

C17_Witness ==
    /\ user.status = "created"
    /\ user.createdWith.provider = "a"
    /\ user.lastUpdate = [name |-> "provider", value |-> "b", accepted |-> FALSE]
    /\ user.attributes.provider = "a"
    /\ user.attributes.preferred_language = "b"

\* The npm commands of deploy.sh in the order the script has them.
DeploySteps == <<"npm install", "build", "cdk:synth", "cdk:diff", "cdk:deploy">>

\* The npm commands the script has run, in order.
NpmCommands ==
    SelectSeq(commands, LAMBDA c : c.command \in SeqToSet(DeploySteps))

\* Whether p is an initial part of q.
IsPrefix(p, q) == Len(p) <= Len(q) /\ p = SubSeq(q, 1, Len(p))

\* The prompt of deploy.sh has been shown and read.
PromptAnswered ==
    \/ shpc \in {"deployConfirm", "deploy"}
    \/ /\ shpc = "exited"
       /\ \/ typed.eof
          \/ \E i \in DOMAIN output :
                output[i] \in {"Deployment cancelled.", "Deploying all stacks..."}

\* C21: the deploy script runs its steps in the order credential check,
\* dependency install (only when node_modules is absent), build, synth, diff,
\* prompt, deploy; a failing install, build or synth ends the script before
\* the prompt, so cdk deploy is not reached, whereas a failing diff is ignored
\* and the script goes on to the prompt.
C21_DeployStepsInOrder ==
    /\ [](DeployRunning =>
            LET npm == NpmCommands
                names == [i \in DOMAIN npm |-> npm[i].command]
            IN  /\ \/ IsPrefix(names, DeploySteps)
                   \/ IsPrefix(names, Tail(DeploySteps))
                /\ commands # <<>> =>
                      commands[1] = [command |-> "aws sts get-caller-identity"]
                /\ \A i \in DOMAIN npm :
                      /\ (npm[i].command \in {"npm install", "build", "cdk:synth"}
                            /\ npm[i].status # 0) =>
                            /\ i = Len(npm)
                            /\ shpc = "exited"
                            /\ exitStatus = npm[i].status
                            /\ ~PromptAnswered
                            /\ CONFIRM = ""
                      /\ npm[i].command = "cdk:diff" =>
                            (shpc = "deployPrompt" \/ PromptAnswered)
                      /\ npm[i].command = "cdk:deploy" =>
                            /\ PromptAnswered
                            /\ \A j \in 1..(i - 1) : npm[j].command = "cdk:diff"
                                                        \/ npm[j].status = 0
                            /\ Len(npm) \in {4, 5})
    /\ [][(shpc = "install" /\ shpc' # "install") =>
            (HasRun("npm install")' <=> ~nodeModules)]_vars

C21_Witness ==
    /\ DeployRunning
    /\ HasRun("cdk:deploy")
    /\ \E i \in DOMAIN commands :
          commands[i].command = "cdk:diff" /\ commands[i].status = 1
    /\ HasRun("npm install")
    /\ exitStatus = 0

-----------------------------------------------------------------------------
(* Properties of the dashboard, under SpecMonitoring *)

RECURSIVE Flatten(_)
\* The widgets of a sequence of rows, row after row.
Flatten(rows) ==
    IF rows = <<>> THEN <<>> ELSE Head(rows) \o Flatten(Tail(rows))

\* C22: for any number n of compute units, 0 and 5 and even and odd numbers
\* included, the dashboard has each unit's graph widget exactly once, in the
\* order of the units, in ceil(n/2) rows of at most two widgets, followed by
\* one row with the one request-routing widget showing request count, 4XX
\* errors, 5XX errors and latency.
C22_DashboardRowsOfTwoThenApiWidget ==
    MonitoringBuilt =>
        LET rows == monitoring.dashboard.rows
            n == Len(lambdaFunctions)
            unitRows == SubSeq(rows, 1, Len(rows) - 1)
            unitWidgets == Flatten(unitRows)
            last == rows[Len(rows)]
        IN  /\ Len(rows) = (IF n % 2 = 0 THEN n \div 2 ELSE (n + 1) \div 2) + 1
            /\ \A r \in DOMAIN unitRows : Len(unitRows[r]) \in {1, 2}
            /\ Len(unitWidgets) = n
            /\ \A i \in 1..n :
                  /\ unitWidgets[i].title = lambdaFunctions[i].functionName
                  /\ {m.metricName : m \in SeqToSet(unitWidgets[i].left)}
                        = {"Invocations", "Errors", "Throttles"}
                  /\ {m.metricName : m \in SeqToSet(unitWidgets[i].right)} = {"Duration"}
                  /\ \A m \in SeqToSet(unitWidgets[i].left \o unitWidgets[i].right) :
                        m.functionName = lambdaFunctions[i].functionName
            /\ Len(last) = 1
            /\ [m \in DOMAIN last[1].left |->
                    <<last[1].left[m].namespace, last[1].left[m].metricName>>]
                  = <<(<<"AWS/ApiGateway", "Count">>), (<<"AWS/ApiGateway", "4XXError">>),
                      (<<"AWS/ApiGateway", "5XXError">>)>>
            /\ [m \in DOMAIN last[1].right |->
                    <<last[1].right[m].namespace, last[1].right[m].metricName>>]
                  = <<(<<"AWS/ApiGateway", "Latency">>)>>
            /\ \A w \in SeqToSet(unitWidgets) : w # last[1]

C22_Witness ==
    /\ MonitoringBuilt
    /\ Len(lambdaFunctions) = 5
    /\ Len(monitoring.dashboard.rows) = 4
    /\ Len(monitoring.dashboard.rows[3]) = 1
    /\ monitoring.dashboard.rows[3][1].title = lambdaFunctions[5].functionName
    /\ monitoring.dashboard.rows[4][1].title = "API Gateway Metrics"

-----------------------------------------------------------------------------
(* Properties of the two scripts and the entry point they start *)

\* The selector a cdk command hands to the entry point with
\* --context environment=$ENVIRONMENT.
ContextSelector(command) ==
    CHOOSE e \in ScriptArguments \cup {"development"} :
        command.context = "environment=" \o e

\* The names of the stacks a `cdk ... --all` command acts on: those the entry
\* point creates for the selector of the command.
MutatedStacks(command) ==
    LET selector == ContextSelector(command)
        environment == IF selector = "" THEN "development" ELSE selector
        cfg == getEnvironmentConfig(environment)
    IN  [environment |-> cfg.environment,
         names |-> {StackName(cfg, role) :
                      role \in {"Auth", "Storage", "Api", "Monitoring"}}]

\* C24: the environment a script announces, and the destroy script requires
\* in the confirmation phrase, is the environment whose stacks the cdk
\* command of that run deploys or destroys.
C24_AnnouncedEnvironmentIsMutated ==
    \A i \in DOMAIN commands :
        commands[i].command \in {"cdk:deploy", "cdk:destroy"} =>
            /\ ContextSelector(commands[i]) = ENVIRONMENT
            /\ \E j \in DOMAIN output : output[j] = "Environment: " \o ENVIRONMENT
            /\ commands[i].command = "cdk:destroy" =>
                  CONFIRM = "destroy-" \o ENVIRONMENT
            /\ MutatedStacks(commands[i]).environment = ENVIRONMENT

\* stackProps.env.region: the region every stack of the application is
\* deployed to is the region of the resolved configuration.
StackRegion(cfg) == cfg.region

\* C30: the region in which the setup script checks for and performs the CDK
\* bootstrap, and the region the deploy script prints, is the region the
\* stacks are deployed to, whatever region the AWS CLI is configured with.
C30_ScriptRegionIsStackRegion ==
    /\ (DeployRunning /\ REGION # "") =>
          /\ \E j \in DOMAIN output : output[j] = "Region: " \o REGION
          /\ REGION = StackRegion(getEnvironmentConfig(ENVIRONMENT))
    /\ \A i \in DOMAIN commands :
          commands[i].command \in {"aws cloudformation describe-stacks", "cdk bootstrap"} =>
              \A e \in SupportedSelectors :
                  commands[i].region = StackRegion(getEnvironmentConfig(e))

=============================================================================
